---- MODULE Spec2Model ----
(***************************************************************************)
(* A model of sghaida/odi: the di2 generator (cmd/di2/main.go), the        *)
(* builder/facade code its service template emits, and di1's               *)
(* writeFileAtomic.  The specifications share one set of variables; each   *)
(* one moves only the variables of its part and leaves the others at       *)
(* their initial value:                                                    *)
(*   BuilderSpec   - a generated builder and its clone (required deps)     *)
(*   BuildWithSpec - BuildWith(reg) and the optional dependencies          *)
(*   WrapperSpec   - the generated method wrappers                         *)
(*   AtomicSpec    - writeFileAtomic, step by step, over a small filesystem*)
(*   MergeSpec     - mergeImports as a pure function                       *)
(*   GenSpec       - genService/genGraph runs against one output path      *)
(*   ComposeSpec   - a composition function rendered by graphTpl           *)
(***************************************************************************)
EXTENDS Integers, Sequences, FiniteSets, TLC

VARIABLES
    \* ---- generated builder (serviceTpl) ----
    policy,            \* <Facade>InjectPolicyOnOverwrite, the generated package variable
    specPolicy,        \* injectPolicy.onOverwrite as written in the spec
    svc,               \* builder -> implementation pointer (NoImpl: builder not created)
    injected,          \* builder -> set of names with injected[name] = true
    optionalResolved,  \* builder -> registry key -> note ("" = no entry)
    optionalMissing,   \* builder -> registry key -> note ("" = no entry)
    heap,              \* implementation pointer -> [req, opt] fields
    last,              \* the last builder operation and what it returned
    \* ---- writeFileAtomic ----
    files,             \* path -> file ([data, mode]) or Absent
    wpc,               \* writer -> position in writeFileAtomic
    wcall,             \* writer -> the arguments and locals of its call
    removes,           \* writer -> removeFile calls made by the current call
    \* ---- mergeImports ----
    mRequired, mPreserved, mOut, mPc,
    \* ---- di2 generation runs ----
    env,               \* the package directory around the output path
    outFile,           \* the file at the output path
    gpc,               \* position of the running generation
    grun,              \* the running generation: its spec, the bytes it writes
    ghist,             \* completed runs, oldest first
    parserChecksImportPath,
    \* ---- a composition function rendered by graphTpl ----
    comp,              \* the root, its statements, and how far the call has come
    \* ---- cmd/di1: resolveImports and the facade rendered by genTemplate ----
    resolve,           \* one call of resolveImports: its arguments and what it returned
    facade             \* facade -> [svc fields, has<Name> flags]; the last call on it

bvars == <<policy, specPolicy, svc, injected, optionalResolved, optionalMissing, heap, last>>
avars == <<files, wpc, wcall, removes>>
mvars == <<mRequired, mPreserved, mOut, mPc>>
gvars == <<env, outFile, gpc, grun, ghist, parserChecksImportPath>>
cvars == <<comp>>
dvars == <<resolve, facade>>
vars == <<bvars, avars, mvars, gvars, cvars, dvars>>

\* Each part leaves the variables of the other parts alone.
BuilderFrame == UNCHANGED <<avars, mvars, gvars, cvars, dvars>>
AtomicFrame == UNCHANGED <<bvars, mvars, gvars, cvars, dvars>>
MergeFrame == UNCHANGED <<bvars, avars, gvars, cvars, dvars>>
GenFrame == UNCHANGED <<bvars, avars, mvars, cvars, dvars>>
CompFrame == UNCHANGED <<bvars, avars, mvars, gvars, dvars>>
Di1Frame == UNCHANGED <<bvars, avars, mvars, gvars, cvars>>

(***************************************************************************)
(* Part 1.  The builder emitted by serviceTpl.                             *)
(***************************************************************************)

Nil == "nil"
Values == {Nil, "v1", "v2"}

\* spec.Required after genService's sort by name
RequiredSeq == <<"A", "B">>
Required == {RequiredSeq[i] : i \in 1..Len(RequiredSeq)}

\* spec.Optional after genService's sort by name
OptionalSeq ==
    << [Name |-> "Metrics", RegistryKey |-> "k.metrics", Kind |-> "field",  DefaultExpr |-> ""],
       [Name |-> "Tracer",  RegistryKey |-> "k.tracer",  Kind |-> "setter", DefaultExpr |-> "NoopTracer{}"] >>
OptNames == {OptionalSeq[i].Name : i \in 1..Len(OptionalSeq)}
RegistryKeys == {OptionalSeq[i].RegistryKey : i \in 1..Len(OptionalSeq)}

Builders == {"b", "c"}
ImplIds == {1, 2}
NoImpl == 0

SpecPolicies == {"", "error", "ignore", "overwrite"}

\* genService: an empty onOverwrite becomes "error"; the template writes it
\* into the generated package variable.
InjectPolicyOnOverwrite(onOverwrite) ==
    IF onOverwrite = "" THEN "error" ELSE onOverwrite

\* Constructor(): the user's constructor; it leaves every dependency field nil.
NewImpl ==
    [req |-> [d \in Required |-> Nil], opt |-> [o \in OptNames |-> "unset"]]

EmptyNotes == [k \in RegistryKeys |-> ""]

\* di.Registry as BuildWith sees it: nil, or what Resolve answers per key:
\* "miss" (ok = false), "err" (err != nil), "wrong" (ok, the value fails the
\* type assertion), or a value of the declared type.
RegValues == {"r1", "r2"}
Answers == {"miss", "err", "wrong"} \cup RegValues
NilRegistry == [isNil |-> TRUE, ans |-> [k \in RegistryKeys |-> "miss"]]
Registries == {NilRegistry} \cup [isNil : {FALSE}, ans : [RegistryKeys -> Answers]]

NoLast ==
    [op |-> "new", who |-> "b", dep |-> "", arg |-> Nil, err |-> FALSE,
     invoked |-> FALSE, ret |-> "", reg |-> NilRegistry]

BuilderInit ==
    /\ specPolicy \in SpecPolicies
    /\ policy = InjectPolicyOnOverwrite(specPolicy)
    /\ svc = [x \in Builders |-> IF x = "b" THEN 1 ELSE NoImpl]
    /\ injected = [x \in Builders |-> {}]
    /\ optionalResolved = [x \in Builders |-> EmptyNotes]
    /\ optionalMissing = [x \in Builders |-> EmptyNotes]
    /\ heap = [i \in ImplIds |-> NewImpl]
    /\ last = NoLast

Live(x) == svc[x] # NoImpl

\* b.svc.<Field> of dependency d
Field(x, d) == heap[svc[x]].req[d]

\* The outcome of the policy switch at the head of TryInject<Name>:
\* "error" (return nil, err), "keep" (return b, nil), "store" (fall through).
TryInjectSwitch_Overwrites(x, d) ==
    CASE policy = "error"     -> IF d \in injected[x] THEN "error" ELSE "store"
      [] policy = "ignore"    -> "store"
      [] policy = "overwrite" -> "store"
      [] OTHER                -> "error"

TryInjectSwitch(x, d) ==
    CASE policy = "error"     -> IF d \in injected[x] THEN "error" ELSE "store"
      [] policy = "ignore"    -> IF d \in injected[x] THEN "keep" ELSE "store"
      [] policy = "overwrite" -> "store"
      [] OTHER                -> "error"

\* The state change of TryInject<Name>(dep), shared with Inject<Name>.
TryInjectEffect(x, d, v) ==
    IF TryInjectSwitch(x, d) = "store"
    THEN /\ heap' = [heap EXCEPT ![svc[x]].req[d] = v]
         /\ injected' = [injected EXCEPT ![x] = @ \cup {d}]
    ELSE UNCHANGED <<heap, injected>>

TryInject(x, d, v) ==
    /\ Live(x)
    /\ BuilderFrame
    /\ TryInjectEffect(x, d, v)
    /\ last' = [NoLast EXCEPT !.op = "TryInject", !.who = x, !.dep = d, !.arg = v,
                              !.err = (TryInjectSwitch(x, d) = "error")]
    /\ UNCHANGED <<policy, specPolicy, svc, optionalResolved, optionalMissing>>

\* Inject<Name>: TryInject<Name>, with the error turned into a panic.
InjectNamed(x, d, v) ==
    /\ Live(x)
    /\ BuilderFrame
    /\ TryInjectEffect(x, d, v)
    /\ last' = [NoLast EXCEPT !.op = "TryInject", !.who = x, !.dep = d, !.arg = v,
                              !.err = (TryInjectSwitch(x, d) = "error"),
                              !.ret = IF TryInjectSwitch(x, d) = "error" THEN "panic" ELSE ""]
    /\ UNCHANGED <<policy, specPolicy, svc, optionalResolved, optionalMissing>>

\* Inject(fn): fn is the caller's; here it is nil, or stores v in field d.
NilFn == [d |-> "", v |-> Nil]
Fns == {NilFn} \cup [d : Required, v : Values]

InjectFn(x, fn) ==
    /\ Live(x)
    /\ BuilderFrame
    /\ heap' = IF fn = NilFn THEN heap ELSE [heap EXCEPT ![svc[x]].req[fn.d] = fn.v]
    /\ last' = [NoLast EXCEPT !.op = "InjectFn", !.who = x]
    /\ UNCHANGED <<policy, specPolicy, svc, injected, optionalResolved, optionalMissing>>

UnsafeImpl(x) ==
    /\ Live(x)
    /\ BuilderFrame
    /\ last' = [NoLast EXCEPT !.op = "UnsafeImpl", !.who = x]
    /\ UNCHANGED <<policy, specPolicy, svc, injected, optionalResolved, optionalMissing, heap>>

\* c := b.Clone(): a new builder over the same implementation pointer, with
\* copies of the three maps.
CloneSvc_Fresh(x) == CHOOSE i \in ImplIds : i # svc[x]

CloneSvc(x) == svc[x]

Clone ==
    /\ Live("b")
    /\ BuilderFrame
    /\ svc' = [svc EXCEPT !["c"] = CloneSvc("b")]
    /\ injected' = [injected EXCEPT !["c"] = injected["b"]]
    /\ optionalResolved' = [optionalResolved EXCEPT !["c"] = optionalResolved["b"]]
    /\ optionalMissing' = [optionalMissing EXCEPT !["c"] = optionalMissing["b"]]
    /\ heap' = IF CloneSvc("b") = svc["b"] THEN heap
               ELSE [heap EXCEPT ![CloneSvc("b")] = heap[svc["b"]]]
    /\ last' = [NoLast EXCEPT !.op = "Clone", !.who = "c"]
    /\ UNCHANGED <<policy, specPolicy>>

\* Reset: b.svc = Constructor(), and three empty maps.  The new implementation
\* takes an address no other builder holds.
Reset(x) ==
    /\ Live(x)
    /\ BuilderFrame
    /\ LET fresh == CHOOSE i \in ImplIds : \A y \in Builders \ {x} : svc[y] # i
       IN /\ svc' = [svc EXCEPT ![x] = fresh]
          /\ heap' = [i \in ImplIds |->
                        IF i = fresh THEN NewImpl
                        ELSE IF \E y \in Builders \ {x} : svc[y] = i THEN heap[i]
                        ELSE NewImpl]
    /\ injected' = [injected EXCEPT ![x] = {}]
    /\ optionalResolved' = [optionalResolved EXCEPT ![x] = EmptyNotes]
    /\ optionalMissing' = [optionalMissing EXCEPT ![x] = EmptyNotes]
    /\ last' = [NoLast EXCEPT !.op = "Reset", !.who = x]
    /\ UNCHANGED <<policy, specPolicy>>

\* Missing(): the names whose field is nil, in spec order.
Missing(x) == SelectSeq(RequiredSeq, LAMBDA d : Field(x, d) = Nil)

\* buildScoped(ctx, reqNames): reqNames is NoNames (a nil slice) or a sequence
\* of names; a name that is no required dependency matches no case.
NoNames == <<"<nil>">>

IsMissing_ByBookkeeping(x, d) == d \notin injected[x]

IsMissing(x, d) == Field(x, d) = Nil

buildScopedMissing(x, reqNames) ==
    IF reqNames = NoNames
    THEN SelectSeq(RequiredSeq, LAMBDA d : IsMissing(x, d))
    ELSE SelectSeq(reqNames, LAMBDA n : n \in Required /\ IsMissing(x, n))

buildScopedErr(x, reqNames) == Len(buildScopedMissing(x, reqNames)) > 0

Build(x) ==
    /\ Live(x)
    /\ BuilderFrame
    /\ last' = [NoLast EXCEPT !.op = "Build", !.who = x,
                              !.err = buildScopedErr(x, NoNames),
                              !.ret = IF buildScopedErr(x, NoNames) THEN "nil" ELSE "svc"]
    /\ UNCHANGED <<policy, specPolicy, svc, injected, optionalResolved, optionalMissing, heap>>

\* spec.Methods after genService's sort by name.  Returns holds the declared
\* return types; "any" stands for a non-error type an error value can be
\* returned as, so that the wrapper of Pair compiles.
Methods ==
    { [Name |-> "Fire",  Returns |-> <<>>,               Requires |-> <<"A">>],
      [Name |-> "Ping",  Returns |-> <<"error">>,        Requires |-> <<"B">>],
      [Name |-> "Count", Returns |-> <<"int">>,          Requires |-> <<"A", "B">>],
      [Name |-> "Load",  Returns |-> <<"int", "error">>, Requires |-> <<"A">>],
      [Name |-> "Pair",  Returns |-> <<"int", "any">>,   Requires |-> <<"B">>],
      [Name |-> "Free",  Returns |-> <<"int", "error">>, Requires |-> <<>>] }

isError(t) == t = "error"

\* What the wrapper's `if err != nil { ... }` block does, by return shape.
WrapperOnError(m) ==
    CASE Len(m.Returns) = 0 -> "return"
      [] Len(m.Returns) = 1 -> IF isError(m.Returns[1]) THEN "err" ELSE "zero"
      [] OTHER -> IF ~isError(m.Returns[Len(m.Returns)]) THEN "panic" ELSE "zeros+err"

\* Whether the wrapper reaches `return svc.<Method>(...)`.
WrapperDelegates(x, m) == ~buildScopedErr(x, m.Requires)

CallMethod(x, m) ==
    /\ Live(x)
    /\ BuilderFrame
    /\ last' = [NoLast EXCEPT !.op = "Call", !.who = x, !.dep = m.Name,
                              !.err = buildScopedErr(x, m.Requires),
                              !.invoked = WrapperDelegates(x, m),
                              !.ret = IF WrapperDelegates(x, m) THEN "impl"
                                      ELSE WrapperOnError(m)]
    /\ UNCHANGED <<policy, specPolicy, svc, injected, optionalResolved, optionalMissing, heap>>

\* BuildWith(reg), one optional dependency at a time.  st is the state the
\* loop body works on: the implementation's optional fields, the two note
\* maps, and whether an early `return nil, err` was taken.
DefaultOf(o) == "default"

ApplyOptional_SkipsDefault(st, o, a) ==
    CASE st.failed -> st
      [] a = "err" -> [st EXCEPT !.failed = TRUE]
      [] a = "wrong" -> [st EXCEPT !.failed = TRUE]
      [] a \in RegValues ->
            [st EXCEPT !.opt[o.Name] = a, !.resolved[o.RegistryKey] = "%T"]
      [] OTHER -> [st EXCEPT !.missing[o.RegistryKey] = "not provided"]

ApplyOptional(st, o, a) ==
    CASE st.failed -> st
      [] a = "err" -> [st EXCEPT !.failed = TRUE]
      [] a = "wrong" -> [st EXCEPT !.failed = TRUE]
      [] a \in RegValues ->
            [st EXCEPT !.opt[o.Name] = a, !.resolved[o.RegistryKey] = "%T"]
      [] o.DefaultExpr # "" ->
            [st EXCEPT !.opt[o.Name] = DefaultOf(o),
                       !.missing[o.RegistryKey] = "used defaultExpr"]
      [] OTHER -> [st EXCEPT !.missing[o.RegistryKey] = "not provided"]

RECURSIVE ResolveOptionals(_, _, _)
ResolveOptionals(st, reg, i) ==
    IF i > Len(OptionalSeq) THEN st
    ELSE ResolveOptionals(ApplyOptional(st, OptionalSeq[i], reg.ans[OptionalSeq[i].RegistryKey]),
                          reg, i + 1)

BuildWithState(x, reg) ==
    LET st0 == [opt |-> heap[svc[x]].opt, resolved |-> optionalResolved[x],
                missing |-> optionalMissing[x], failed |-> FALSE]
    IN IF Len(OptionalSeq) > 0 /\ ~reg.isNil THEN ResolveOptionals(st0, reg, 1) ELSE st0

BuildWith(x, reg) ==
    /\ Live(x)
    /\ BuilderFrame
    /\ LET st == BuildWithState(x, reg)
           err == st.failed \/ buildScopedErr(x, NoNames)
       IN /\ heap' = [heap EXCEPT ![svc[x]].opt = st.opt]
          /\ optionalResolved' = [optionalResolved EXCEPT ![x] = st.resolved]
          /\ optionalMissing' = [optionalMissing EXCEPT ![x] = st.missing]
          /\ last' = [NoLast EXCEPT !.op = "BuildWith", !.who = x, !.reg = reg,
                                    !.err = err,
                                    !.ret = CASE st.failed -> "optional"
                                              [] err -> "missing"
                                              [] OTHER -> "svc"]
    /\ UNCHANGED <<policy, specPolicy, svc, injected>>

\* BuildWith on one builder; the required dependencies are nil or "v1".
BuildWithNext ==
    \/ \E d \in Required, v \in {Nil, "v1"} : TryInject("b", d, v)
    \/ Reset("b")
    \/ \E reg \in Registries : BuildWith("b", reg)

BuilderNext ==
    \/ \E x \in Builders, d \in Required, v \in Values : TryInject(x, d, v)
    \/ \E x \in Builders, d \in Required, v \in Values : InjectNamed(x, d, v)
    \/ \E x \in Builders, fn \in Fns : InjectFn(x, fn)
    \/ \E x \in Builders : UnsafeImpl(x)
    \/ Clone
    \/ \E x \in Builders : Reset(x)
    \/ \E x \in Builders : Build(x)

\* The method wrappers, on one builder.
WrapperNext ==
    \/ \E d \in Required, v \in Values : TryInject("b", d, v)
    \/ \E fn \in Fns : InjectFn("b", fn)
    \/ Reset("b")
    \/ \E m \in Methods : CallMethod("b", m)

(***************************************************************************)
(* Claims about the builder.                                               *)
(***************************************************************************)

AllFieldsSet(x) == \A d \in Required : Field(x, d) # Nil

\* C1 as stated: Build() on the constructed builder fails if and only if
\* some required dependency has not gone through TryInject<Name>/Inject<Name>
\* since construction or the last Reset (what injected[] records).
C1_BuildFailsIffNeverInjected ==
    (last.op = "Build" /\ last.who = "b") => (last.err <=> injected["b"] # Required)

\* C1, amended: Build() fails if and only if some required dependency's
\* field on the wrapped implementation is nil when Build() is called, and it
\* returns the implementation otherwise.
C1_BuildFailsIffNilField ==
    last.op = "Build" =>
        /\ last.err <=> ~AllFieldsSet(last.who)
        /\ last.ret = IF AllFieldsSet(last.who) THEN "svc" ELSE "nil"

\* Build() failed on a builder every required dependency of which was injected
\* (one of them with nil).
C1_Witness ==
    /\ last.op = "Build" /\ last.err
    /\ injected[last.who] = Required

\* C2: a second TryInject<Name> of an injected dependency, by the spec's
\* policy: error - an error, field and bookkeeping unchanged; ignore -
\* success, the first value stays; overwrite - success, the field holds the
\* new value; no policy in the spec - as error.
C2_PolicyOf(onOverwrite) == IF onOverwrite = "" THEN "error" ELSE onOverwrite

C2_SecondInjectStep ==
    LET x == last'.who
        d == last'.dep
    IN (last'.op = "TryInject" /\ last'.ret = "" /\ d \in injected[x]) =>
          CASE C2_PolicyOf(specPolicy) = "error" ->
                  last'.err /\ heap' = heap /\ injected' = injected
            [] C2_PolicyOf(specPolicy) = "ignore" ->
                  ~last'.err /\ heap' = heap /\ injected' = injected
            [] OTHER ->
                  /\ ~last'.err
                  /\ heap'[svc[x]].req[d] = last'.arg
                  /\ d \in injected'[x]

C2_OverwritePolicy == [][C2_SecondInjectStep]_vars

\* a second TryInject under ignore returned success and the field still holds
\* the first value, not the argument
C2_Witness ==
    /\ last.op = "TryInject" /\ last.ret = "" /\ ~last.err
    /\ specPolicy = "ignore"
    /\ last.dep \in Required
    /\ Field(last.who, last.dep) \notin {last.arg, Nil}

MethodNamed(n) == CHOOSE m \in Methods : m.Name = n

\* a declared required dependency named in m.Requires has a nil field
RequiresMissing(x, m) ==
    \E i \in 1..Len(m.Requires) :
        m.Requires[i] \in Required /\ Field(x, m.Requires[i]) = Nil

\* C9: with a required dependency of the method missing, the wrapper does
\* not call the implementation and returns the validation error (with zero
\* values for the other results), whatever the return shape.
C9_WrapperReturnsError ==
    (last.op = "Call" /\ RequiresMissing(last.who, MethodNamed(last.dep))) =>
        (~last.invoked /\ last.ret \in {"err", "zeros+err"})

ResolvesCleanly(reg) ==
    ~reg.isNil /\ \A k \in RegistryKeys : reg.ans[k] \in {"miss"} \cup RegValues

\* what C8 says of optional dependency o after BuildWith(reg) from opt
C8_Handled(o, reg, before, after) ==
    CASE reg.ans[o.RegistryKey] \in RegValues -> after[o.Name] = reg.ans[o.RegistryKey]
      [] o.DefaultExpr # "" -> after[o.Name] = "default"
      [] OTHER -> after[o.Name] = before[o.Name]

\* C8 as stated: a non-nil registry whose Resolve returns no error, all
\* required dependencies present: BuildWith succeeds whether or not the
\* registry has the keys.
C8_BuildWithAlwaysSucceeds ==
    (/\ last.op = "BuildWith" /\ ~last.reg.isNil
     /\ \A k \in RegistryKeys : last.reg.ans[k] # "err"
     /\ AllFieldsSet(last.who)) => ~last.err

\* C8, amended: when, besides, every value the registry holds for a key has
\* the declared type, each optional dependency receives the resolved value,
\* or its default on a miss, or is left as it was, and BuildWith succeeds.
C8_OptionalStep ==
    (/\ last'.op = "BuildWith" /\ ResolvesCleanly(last'.reg)
     /\ AllFieldsSet(last'.who)) =>
        /\ ~last'.err /\ last'.ret = "svc"
        /\ \A i \in 1..Len(OptionalSeq) :
              C8_Handled(OptionalSeq[i], last'.reg, heap[svc[last'.who]].opt,
                         heap'[svc'[last'.who]].opt)

C8_OptionalResolution == [][C8_OptionalStep]_vars

\* BuildWith succeeded with one key resolved and the other defaulted
C8_Witness ==
    /\ last.op = "BuildWith" /\ ~last.err /\ ResolvesCleanly(last.reg)
    /\ last.reg.ans["k.tracer"] = "miss" /\ heap[svc["b"]].opt["Tracer"] = "default"
    /\ last.reg.ans["k.metrics"] = "r2" /\ heap[svc["b"]].opt["Metrics"] = "r2"

\* C24: after BuildWith with a nil registry every optional dependency that
\* declares a default holds that default.
C24_NilRegistryAppliesDefault ==
    (last.op = "BuildWith" /\ last.reg.isNil) =>
        \A i \in 1..Len(OptionalSeq) :
            OptionalSeq[i].DefaultExpr # "" =>
                heap[svc[last.who]].opt[OptionalSeq[i].Name] = DefaultOf(OptionalSeq[i])

\* C28: a BuildWith that returns an error leaves the implementation's
\* optional fields and the builder's two optional-resolution maps as they
\* were before the call.
C28_FailedBuildWithStep ==
    (last'.op = "BuildWith" /\ last'.err) =>
        /\ heap'[svc[last'.who]].opt = heap[svc[last'.who]].opt
        /\ optionalResolved' = optionalResolved
        /\ optionalMissing' = optionalMissing

C28_FailedBuildWithChangesNothing == [][C28_FailedBuildWithStep]_vars

\* C29: while the builder and its clone both stand, an injection into one
\* of them changes neither Missing() nor the outcome of Build() of the other.
C29_InjectStep ==
    (last'.op = "TryInject" /\ \A x \in Builders : Live(x)) =>
        \A y \in Builders \ {last'.who} :
            /\ Missing(y)' = Missing(y)
            /\ buildScopedErr(y, NoNames)' = buildScopedErr(y, NoNames)

C29_CloneIndependent == [][C29_InjectStep]_vars

(***************************************************************************)
(* Part 2.  writeFileAtomic (cmd/di1), one step of the function per action *)
(* over a filesystem of one target path and a few temporary names.         *)
(***************************************************************************)

MaxDataLen == 2
MaxCalls == 2

Bytes == {1, 2}
RECURSIVE SeqsUpTo(_, _)
SeqsUpTo(S, n) ==
    IF n = 0 THEN {<<>>}
    ELSE LET shorter == SeqsUpTo(S, n - 1)
         IN shorter \cup {Append(q, e) : q \in {r \in shorter : Len(r) = n - 1}, e \in S}

\* what a caller hands to writeFileAtomic: generated source, never empty
Datas == SeqsUpTo(Bytes, MaxDataLen) \ {<<>>}

Target == "out.go"
TempNames == {"out.go.tmp-1", "out.go.tmp-2"}
Paths == {Target} \cup TempNames
Absent == [exists |-> FALSE, data |-> <<>>, mode |-> ""]
File(d, m) == [exists |-> TRUE, data |-> d, mode |-> m]
OldFile == File(<<2, 2, 1>>, "0644")

Writers == {1, 2}
IdleCall == [data |-> <<>>, perm |-> "", tmp |-> "", err |-> "", before |-> Absent,
             done |-> <<>>, calls |-> 0]

AtomicInit ==
    /\ files \in {[q \in Paths |-> IF q = Target THEN t ELSE Absent] : t \in {Absent, OldFile}}
    /\ wpc = [w \in Writers |-> "idle"]
    /\ wcall = [w \in Writers |-> IdleCall]
    /\ removes = [w \in Writers |-> 0]

\* writeFileAtomic(targetPath, data, perm) is entered
Call(w, data) ==
    /\ wpc[w] = "idle"
    /\ AtomicFrame
    /\ wcall[w].calls < MaxCalls
    /\ wcall' = [wcall EXCEPT ![w] = [IdleCall EXCEPT !.data = data, !.perm = "0644",
                                                      !.before = files[Target],
                                                      !.calls = wcall[w].calls + 1]]
    /\ wpc' = [wpc EXCEPT ![w] = "create"]
    /\ removes' = [removes EXCEPT ![w] = 0]
    /\ UNCHANGED files

\* createTempFile(dir, base+".tmp-*"): a name no file has, mode 0600
CreateTemp(w, ok) ==
    /\ wpc[w] = "create"
    /\ AtomicFrame
    /\ IF ok /\ \E n \in TempNames : ~files[n].exists
       THEN \E n \in TempNames :
              /\ ~files[n].exists
              /\ files' = [files EXCEPT ![n] = File(<<>>, "0600")]
              /\ wcall' = [wcall EXCEPT ![w].tmp = n, ![w].done = <<"create">>]
              /\ wpc' = [wpc EXCEPT ![w] = "write"]
       ELSE /\ wcall' = [wcall EXCEPT ![w].err = "create"]
            /\ wpc' = [wpc EXCEPT ![w] = "returned"]
            /\ UNCHANGED files
    /\ UNCHANGED removes

\* the path tmpFile.Write writes to
WritePath_Target(w) == Target

WritePath(w) == wcall[w].tmp

\* tmpFile.Write(data): all of it, or an error after the first n bytes
\* (n < len(data)), followed by `_ = tmpFile.Close()`
WriteTemp(w, n) ==
    /\ wpc[w] = "write"
    /\ AtomicFrame
    /\ n \in 0..Len(wcall[w].data)
    /\ files' = [files EXCEPT ![WritePath(w)] =
                    File(SubSeq(wcall[w].data, 1, n),
                         IF files[WritePath(w)].exists THEN files[WritePath(w)].mode ELSE "0600")]
    /\ IF n = Len(wcall[w].data)
       THEN /\ wcall' = [wcall EXCEPT ![w].done = Append(@, "write")]
            /\ wpc' = [wpc EXCEPT ![w] = "close"]
       ELSE /\ wcall' = [wcall EXCEPT ![w].err = "write"]
            /\ wpc' = [wpc EXCEPT ![w] = "cleanup"]
    /\ UNCHANGED removes

CloseTemp(w, ok) ==
    /\ wpc[w] = "close"
    /\ AtomicFrame
    /\ IF ok
       THEN /\ wcall' = [wcall EXCEPT ![w].done = Append(@, "close")]
            /\ wpc' = [wpc EXCEPT ![w] = "chmod"]
       ELSE /\ wcall' = [wcall EXCEPT ![w].err = "close"]
            /\ wpc' = [wpc EXCEPT ![w] = "cleanup"]
    /\ UNCHANGED <<files, removes>>

\* chmodFile(tmpPath, perm)
ChmodTemp(w, ok) ==
    /\ wpc[w] = "chmod"
    /\ AtomicFrame
    /\ IF ok
       THEN /\ files' = [files EXCEPT ![wcall[w].tmp].mode = wcall[w].perm]
            /\ wcall' = [wcall EXCEPT ![w].done = Append(@, "chmod")]
            /\ wpc' = [wpc EXCEPT ![w] = "rename"]
       ELSE /\ wcall' = [wcall EXCEPT ![w].err = "chmod"]
            /\ wpc' = [wpc EXCEPT ![w] = "cleanup"]
            /\ UNCHANGED files
    /\ UNCHANGED removes

\* renameFile(tmpPath, targetPath): rename(2) replaces the target in one step
RenameTemp(w, ok) ==
    /\ wpc[w] = "rename"
    /\ AtomicFrame
    /\ IF ok
       THEN /\ files' = [files EXCEPT ![Target] = files[wcall[w].tmp],
                                      ![wcall[w].tmp] = Absent]
            /\ wcall' = [wcall EXCEPT ![w].done = Append(@, "rename")]
            /\ wpc' = [wpc EXCEPT ![w] = "returned"]
       ELSE /\ wcall' = [wcall EXCEPT ![w].err = "rename"]
            /\ wpc' = [wpc EXCEPT ![w] = "cleanup"]
            /\ UNCHANGED files
    /\ UNCHANGED removes

\* the removal's error taking the place of the step's
DeferredErr_Remove(w, ok) == IF ok THEN wcall[w].err ELSE "remove"

\* err after the deferred func: `_ = removeFile(tmpPath)` drops the removal's error
DeferredErr(w, ok) == wcall[w].err

\* the deferred func: err != nil, so removeFile(tmpPath) is called
Cleanup(w, ok) ==
    /\ wpc[w] = "cleanup"
    /\ AtomicFrame
    /\ files' = IF ok THEN [files EXCEPT ![wcall[w].tmp] = Absent] ELSE files
    /\ removes' = [removes EXCEPT ![w] = @ + 1]
    /\ wpc' = [wpc EXCEPT ![w] = "returned"]
    /\ wcall' = [wcall EXCEPT ![w].err = DeferredErr(w, ok)]

\* the call has returned wcall[w].err; the caller may call again
Return(w) ==
    /\ wpc[w] = "returned"
    /\ AtomicFrame
    /\ wpc' = [wpc EXCEPT ![w] = "idle"]
    /\ UNCHANGED <<files, wcall, removes>>

WriterStep(w) ==
    \/ \E data \in Datas : Call(w, data)
    \/ \E ok \in BOOLEAN : CreateTemp(w, ok)
    \/ \E n \in 0..MaxDataLen : WriteTemp(w, n)
    \/ \E ok \in BOOLEAN : CloseTemp(w, ok)
    \/ \E ok \in BOOLEAN : ChmodTemp(w, ok)
    \/ \E ok \in BOOLEAN : RenameTemp(w, ok)
    \/ \E ok \in BOOLEAN : Cleanup(w, ok)
    \/ Return(w)

\* one caller at a time
AtomicNext == WriterStep(1)

\* two callers, one call each, their steps interleaved
ConcurrentInit ==
    /\ files \in {[q \in Paths |-> IF q = Target THEN t ELSE Absent] : t \in {Absent, OldFile}}
    /\ wpc = [w \in Writers |-> "idle"]
    /\ wcall = [w \in Writers |-> [IdleCall EXCEPT !.calls = MaxCalls - 1]]
    /\ removes = [w \in Writers |-> 0]

ConcurrentNext == \E w \in Writers : WriterStep(w)

(***************************************************************************)
(* Claims about writeFileAtomic.                                           *)
(***************************************************************************)

\* what a reader of a path gets; <<-1>> stands for "no such file"
Content(f) == IF f.exists THEN f.data ELSE <<-1>>

\* C3, the reader's side: during a call the target reads as before the call
\* or as the complete data
C3_OldOrComplete ==
    \A w \in Writers :
        wpc[w] # "idle" =>
            Content(files[Target]) \in {Content(wcall[w].before), wcall[w].data}

\* C3, the writer's side: only a rename changes the file at the target, and it
\* comes after create, write, close and chmod succeeded on a temporary file
\* that holds all of data
C3_OnlyRenameTouches ==
    files'[Target] # files[Target] =>
        \E w \in Writers :
            /\ wpc[w] = "rename" /\ wpc'[w] = "returned"
            /\ wcall[w].done = <<"create", "write", "close", "chmod">>
            /\ wcall[w].err = ""
            /\ files[wcall[w].tmp] = File(wcall[w].data, wcall[w].perm)
            /\ files'[Target] = files[wcall[w].tmp]

\* C3: at every point of a writeFileAtomic call, failing or not, the target
\* holds its previous content or the complete data, and it is touched only
\* by the final rename, after write, close and chmod succeeded.
C3_NeverPartial == []C3_OldOrComplete /\ [][C3_OnlyRenameTouches]_vars

\* a call that replaced different content has returned nil
C3_Witness ==
    /\ wpc[1] = "returned" /\ wcall[1].err = ""
    /\ wcall[1].before.exists
    /\ Content(files[Target]) = wcall[1].data
    /\ Content(wcall[1].before) # wcall[1].data

\* the step after the ones a call has done
StepAfter(done) ==
    CASE done = <<>> -> "create"
      [] done = <<"create">> -> "write"
      [] done = <<"create", "write">> -> "close"
      [] done = <<"create", "write", "close">> -> "chmod"
      [] done = <<"create", "write", "close", "chmod">> -> "rename"
      [] OTHER -> ""

\* C16: a call that failed at write, close, chmod or rename has called
\* removeFile on its temporary file once when it returns, a call that failed
\* at create has not called it, and the error returned is that of the step
\* that failed, whether or not the removal worked.
C16_RemovesOnceOnFailure ==
    \A w \in Writers :
        (wpc[w] = "returned" /\ wcall[w].err # "") =>
            /\ wcall[w].err = StepAfter(wcall[w].done)
            /\ wcall[w].err \in {"write", "close", "chmod", "rename"} => removes[w] = 1
            /\ wcall[w].err = "create" => removes[w] = 0

\* a call failed at chmod, then its removal failed too: the temporary file
\* is still there and the call returned the chmod error
C16_Witness ==
    /\ wpc[1] = "returned"
    /\ wcall[1].err = "chmod"
    /\ removes[1] = 1
    /\ files[wcall[1].tmp].exists

\* both callers have made their call and are back
BothReturned ==
    \A w \in Writers : wcall[w].calls = MaxCalls /\ wpc[w] \in {"returned", "idle"}

\* the calls that returned nil
Succeeded == {w \in Writers : wcall[w].err = ""}

\* C19 as stated: after two concurrent calls with different data and distinct
\* temporary names the target holds all of the data of one of the two calls.
C19_TargetHoldsOneCallsData ==
    (/\ BothReturned
     /\ wcall[1].data # wcall[2].data
     /\ wcall[1].tmp # wcall[2].tmp) =>
        /\ \E w \in Writers : Content(files[Target]) = wcall[w].data
        /\ \A w \in Succeeded : ~files[wcall[w].tmp].exists

\* C19: after two concurrent calls with different data and distinct temporary
\* names the target holds all of the data of a call that returned nil (its
\* content from before when both failed), and the temporary file of a call
\* that returned nil is gone.
C19_ConcurrentOneWins ==
    (/\ BothReturned
     /\ wcall[1].data # wcall[2].data
     /\ wcall[1].tmp # wcall[2].tmp) =>
        /\ IF Succeeded # {}
           THEN \E w \in Succeeded : files[Target] = File(wcall[w].data, wcall[w].perm)
           ELSE \A w \in Writers : files[Target] = wcall[w].before
        /\ \A w \in Succeeded : ~files[wcall[w].tmp].exists

\* both calls were entered before either renamed, both returned nil, and the
\* first caller's data is what the target holds
C19_Witness ==
    /\ BothReturned
    /\ Succeeded = Writers
    /\ wcall[1].data # wcall[2].data
    /\ wcall[1].tmp # wcall[2].tmp
    /\ wcall[1].before = OldFile /\ wcall[2].before = OldFile
    /\ Content(files[Target]) = wcall[1].data

(***************************************************************************)
(* Part 3.  Go strings and imports.  A string is a sequence of symbols: a  *)
(* symbol is one of the three characters the code and the Go scanner treat *)
(* specially (double quote, backslash, backquote) or a run of ordinary     *)
(* characters taken as a whole.  SymbolOrder lists the symbols in Go's     *)
(* string order (byte order); no run is a prefix of another.               *)
(***************************************************************************)

SP == " "
DQ == "\""
BS == "\\"
\* the backquote character, written out
BQ == "backquote"

SymbolOrder ==
    << SP, DQ,
       "A", "B", "Fire", "InjectOrder", "InjectVoucher", "Load", "Metrics", "Pair", "Tracer", "Wire",
       BS, BQ,
       "config", "context", "di",
       "example.com/app", "example.com/app/config", "example.com/fork/config", "example.com/fork/di",
       "example.com/keep/me", "example.com/override/config", "example.com/set/config",
       "example.com/zz/settings",
       "fmt", "github.com/sghaida/odi/di", "keep", "ledger", "order", "strings", "time", "voucher" >>

Rank(c) == CHOOSE i \in 1..Len(SymbolOrder) : SymbolOrder[i] = c

\* a < b on Go strings
RECURSIVE StrLess(_, _)
StrLess(a, b) ==
    CASE b = <<>> -> FALSE
      [] a = <<>> -> TRUE
      [] Head(a) = Head(b) -> StrLess(Tail(a), Tail(b))
      [] OTHER -> Rank(Head(a)) < Rank(Head(b))

\* type GoImport struct { Name, Path string }
GoImport(name, path) == [Name |-> name, Path |-> path]

ImportLess(x, y) ==
    IF x.Path = y.Path THEN StrLess(x.Name, y.Name) ELSE StrLess(x.Path, y.Path)

\* sort.Slice over the values of a map whose keys are pairwise distinct: the
\* order the map is ranged in does not show in the result
RECURSIVE SortImports(_)
SortImports(S) ==
    IF S = {} THEN <<>>
    ELSE LET m == CHOOSE x \in S : \A y \in S \ {x} : ~ImportLess(y, x)
         IN <<m>> \o SortImports(S \ {m})

\* key{path: gi.Path, name: gi.Name}
ImportKey_PathOnly(gi) == [path |-> gi.Path, name |-> <<>>]

ImportKey(gi) == [path |-> gi.Path, name |-> gi.Name]

\* add(gi) for every gi of imps, in order: the first import of a key stays
RECURSIVE AddImports(_, _)
AddImports(seen, imps) ==
    IF imps = <<>> THEN seen
    ELSE AddImports(IF \E g \in seen : ImportKey(g) = ImportKey(Head(imps))
                    THEN seen ELSE seen \cup {Head(imps)},
                    Tail(imps))

mergeImports(required, preserved) ==
    SortImports(AddImports(AddImports({}, required), preserved))

dedupeAndSortImports(imps) == SortImports(AddImports({}, imps))

(***************************************************************************)
(* mergeImports on its own: the inputs are drawn at the start.             *)
(***************************************************************************)

MaxImports == 2

MergeUniverse ==
    { GoImport(n, q) : n \in {<<>>, <<"config">>},
                       q \in {<<"example.com/app/config">>, <<"fmt">>} }

MergeInit ==
    /\ mRequired \in SeqsUpTo(MergeUniverse, MaxImports)
    /\ mPreserved \in SeqsUpTo(MergeUniverse, MaxImports)
    /\ mOut = <<>>
    /\ mPc = "call"

Merge ==
    /\ mPc = "call"
    /\ MergeFrame
    /\ mOut' = mergeImports(mRequired, mPreserved)
    /\ mPc' = "done"
    /\ UNCHANGED <<mRequired, mPreserved>>

MergeNext == Merge

MergeIdle ==
    /\ mRequired = <<>> /\ mPreserved = <<>> /\ mOut = <<>> /\ mPc = "call"

Range(q) == {q[i] : i \in 1..Len(q)}

Reorderings(q) ==
    { [i \in 1..Len(q) |-> q[f[i]]] :
        f \in {g \in [1..Len(q) -> 1..Len(q)] : \A i, j \in 1..Len(q) : g[i] = g[j] => i = j} }

\* C7: mergeImports returns the union of its inputs by (path, alias), each
\* once, ascending by path then alias, whatever the order of either input;
\* the same path under two aliases is two entries.
C7_MergeIsSortedUnion ==
    mPc = "done" =>
        /\ Range(mOut) = Range(mRequired) \cup Range(mPreserved)
        /\ \A i, j \in 1..Len(mOut) :
              i < j => \/ StrLess(mOut[i].Path, mOut[j].Path)
                       \/ mOut[i].Path = mOut[j].Path /\ StrLess(mOut[i].Name, mOut[j].Name)
        /\ \A r \in Reorderings(mRequired), q \in Reorderings(mPreserved) :
              mergeImports(r, q) = mOut

\* one path came in under two aliases, and an import came in twice
C7_Witness ==
    /\ mPc = "done"
    /\ \E i, j \in 1..Len(mOut) : mOut[i].Path = mOut[j].Path /\ mOut[i].Name # mOut[j].Name
    /\ Len(mOut) < Len(mRequired) + Len(mPreserved)
    /\ \E r \in Reorderings(mRequired) : r # mRequired

(***************************************************************************)
(* Part 4.  The di2 generator: genService and genGraph against one output  *)
(* path.  A source file is kept as what the generator and the Go parser    *)
(* can tell apart in it: its import specs (alias and literal token, each a *)
(* Go string), its declarations, and whether gofmt has laid it out.        *)
(***************************************************************************)

RECURSIVE TrimLeft(_, _)
TrimLeft(s, c) == IF s # <<>> /\ Head(s) = c THEN TrimLeft(Tail(s), c) ELSE s

RECURSIVE TrimRight(_, _)
TrimRight(s, c) ==
    IF s # <<>> /\ s[Len(s)] = c THEN TrimRight(SubSeq(s, 1, Len(s) - 1), c) ELSE s

\* strings.Trim(s, cutset) for a cutset of one character
Trim(s, c) == TrimRight(TrimLeft(s, c), c)

TrimSpace(s) == Trim(s, SP)

\* strings.HasSuffix(path, suffix), for the two suffixes the generator asks about
HasSuffix(path, suffix) ==
    /\ path # <<>>
    /\ path[Len(path)] \in
         CASE suffix = "/config" -> {"example.com/app/config", "example.com/fork/config",
                                      "example.com/override/config", "example.com/set/config"}
           [] suffix = "/di" -> {"example.com/fork/di", "github.com/sghaida/odi/di"}

\* strings.Contains(type, pkg + "."), over the types the specs below use
TypeContains(t, pkg) ==
    \/ pkg = "context" /\ t = "context.Context"
    \/ pkg = "time" /\ t = "time.Duration"

\* sort.Slice(q, less) for the short lists of a spec (insertion sort below 12
\* elements: equal elements keep their order); less[i, j] compares q[i], q[j]
RECURSIVE SortedIndices(_, _)
SortedIndices(less, I) ==
    IF I = {} THEN <<>>
    ELSE LET m == CHOOSE i \in I : \A j \in I \ {i} : ~less[j, i] /\ (~less[i, j] => i < j)
         IN <<m>> \o SortedIndices(less, I \ {m})

SortSlice(q, less) ==
    LET ix == SortedIndices(less, 1..Len(q)) IN [k \in 1..Len(q) |-> q[ix[k]]]

SortByName(q) == SortSlice(q, [i, j \in 1..Len(q) |-> StrLess(q[i].Name, q[j].Name)])

\* ---- source files ----

ImportSpec(name, lit) == [Name |-> name, Lit |-> lit]

\* "path" and `path` as literal tokens
Quoted(path) == <<DQ>> \o path \o <<DQ>>
RawQuoted(path) == <<BQ>> \o path \o <<BQ>>

NoText ==
    [kind |-> "none", hash |-> <<>>, pkg |-> <<>>, imports |-> <<>>,
     body |-> [none |-> TRUE], gofmt |-> FALSE]

\* a Go file somebody wrote: lexically sound, laid out by gofmt
HandText(imports) ==
    [kind |-> "hand", hash |-> <<>>, pkg |-> <<"svc">>, imports |-> imports,
     body |-> [hand |-> TRUE], gofmt |-> TRUE]

\* a file that is not Go at all
GarbageText == [NoText EXCEPT !.kind = "garbage"]

\* cut: how much of the text is in the file ("full"; "body": cut after the
\* import block; "head": cut before its end; "empty": nothing)
SrcFile(text, cut) == [exists |-> TRUE, text |-> text, cut |-> cut]
NoSrcFile == [exists |-> FALSE, text |-> NoText, cut |-> "full"]

\* go/scanner on an interpreted string literal: the index of the closing
\* quote, 0 when the line ends first or an escape is unknown
RECURSIVE ClosingQuote(_, _)
ClosingQuote(l, i) ==
    IF i > Len(l) THEN 0
    ELSE IF l[i] = DQ THEN i
    ELSE IF l[i] = BS
         THEN IF i + 1 <= Len(l) /\ l[i + 1] \in {DQ, BS} THEN ClosingQuote(l, i + 2) ELSE 0
    ELSE ClosingQuote(l, i + 1)

\* the token text is exactly one string literal
IsStringLit(l) ==
    /\ Len(l) >= 2
    /\ \/ l[1] = DQ /\ ClosingQuote(l, 2) = Len(l)
       \/ l[1] = BQ /\ l[Len(l)] = BQ /\ \A i \in 2..(Len(l) - 1) : l[i] # BQ

RECURSIVE Unescape(_)
Unescape(s) ==
    IF s = <<>> THEN <<>>
    ELSE IF Head(s) = BS /\ Len(s) >= 2 THEN <<s[2]>> \o Unescape(SubSeq(s, 3, Len(s)))
    ELSE <<Head(s)>> \o Unescape(Tail(s))

\* strconv.Unquote of a string literal
Unquote(l) ==
    IF l[1] = BQ THEN SubSeq(l, 2, Len(l) - 1) ELSE Unescape(SubSeq(l, 2, Len(l) - 1))

\* go/parser's test of an import path: not empty, no space, none of "\`
isValidImport(l) ==
    LET s == Unquote(l) IN s # <<>> /\ \A i \in 1..Len(s) : s[i] \notin {SP, DQ, BS, BQ}

\* one import spec parses; whether go/parser looks into the path depends on
\* the Go release the generator was built with
ImportSpecParses(sp) ==
    IsStringLit(sp.Lit) /\ (parserChecksImportPath => isValidImport(sp.Lit))

\* parser.ParseFile(..., parser.ImportsOnly)
ParsesImportsOnly(f) ==
    /\ f.cut \in {"full", "body"}
    /\ f.text.kind \notin {"garbage", "none"}
    /\ \A i \in 1..Len(f.text.imports) : ImportSpecParses(f.text.imports[i])

\* the loop over f.Imports in scanPackageImports and readImportsFromExistingOut
ImportsOf(text) ==
    [i \in 1..Len(text.imports) |->
        GoImport(text.imports[i].Name, Trim(text.imports[i].Lit, DQ))]

\* format.Source: a syntax error, or the text laid out with each import block
\* sorted by path, then alias
formatSource(text) ==
    IF \E i \in 1..Len(text.imports) : ~ImportSpecParses(text.imports[i])
    THEN [ok |-> FALSE, text |-> text]
    ELSE [ok |-> TRUE,
          text |-> [text EXCEPT
             !.gofmt = TRUE,
             !.imports = SortSlice(text.imports,
                [i, j \in 1..Len(text.imports) |->
                    ImportLess(GoImport(text.imports[i].Name, Unquote(text.imports[i].Lit)),
                               GoImport(text.imports[j].Name, Unquote(text.imports[j].Lit)))])]]

\* ---- the package directory ----

DirEntry(name, isDir, readable, text) ==
    [name |-> name, isDir |-> isDir, readable |-> readable, text |-> text]

\* the name tests of scanPackageImports, over the names used below
IsGoName(name) ==
    name \in {"deps.go", "types.go", "types_test.go", "old.gen.go", "mid.gen.x.go", "zz_gen.go"}

\* no name is taken for a test file
IsTestName_None(name) == FALSE

IsTestName(name) == name = "types_test.go"
IsGeneratedName(name) == name \in {"old.gen.go", "mid.gen.x.go", "zz_gen.go"}

RECURSIVE ScanEntries(_)
ScanEntries(entries) ==
    IF entries = <<>> THEN <<>>
    ELSE LET e == Head(entries)
             rest == ScanEntries(Tail(entries))
         IN IF \/ e.isDir
               \/ ~IsGoName(e.name)
               \/ IsTestName(e.name)
               \/ IsGeneratedName(e.name)
               \/ ~e.readable
               \/ ~ParsesImportsOnly(SrcFile(e.text, "full"))
            THEN rest
            ELSE ImportsOf(e.text) \o rest

\* the output file itself is named *.gen.go and is skipped like old.gen.go
scanPackageImports(dir) ==
    IF ~dir.readable THEN <<>> ELSE dedupeAndSortImports(ScanEntries(dir.entries))

NoImport == GoImport(<<>>, <<>>)

\* the two loops the other way round
findImportByAliasOrSuffix_SuffixFirst(imports, preferAlias, preferSuffix) ==
    LET byAlias == {i \in 1..Len(imports) : imports[i].Name = <<preferAlias>>}
        bySuffix == {i \in 1..Len(imports) : HasSuffix(imports[i].Path, preferSuffix)}
        first(I) == CHOOSE i \in I : \A j \in I : i <= j
    IN IF bySuffix # {} THEN [ok |-> TRUE, gi |-> imports[first(bySuffix)]]
       ELSE IF byAlias # {} THEN [ok |-> TRUE, gi |-> imports[first(byAlias)]]
       ELSE [ok |-> FALSE, gi |-> NoImport]

findImportByAliasOrSuffix(imports, preferAlias, preferSuffix) ==
    LET byAlias == {i \in 1..Len(imports) : imports[i].Name = <<preferAlias>>}
        bySuffix == {i \in 1..Len(imports) : HasSuffix(imports[i].Path, preferSuffix)}
        first(I) == CHOOSE i \in I : \A j \in I : i <= j
    IN IF byAlias # {} THEN [ok |-> TRUE, gi |-> imports[first(byAlias)]]
       ELSE IF bySuffix # {} THEN [ok |-> TRUE, gi |-> imports[first(bySuffix)]]
       ELSE [ok |-> FALSE, gi |-> NoImport]

\* findModule(pkgDir) and moduleImportPathForDir: the package directory is the
\* module root when a go.mod is found, so the package import is the module path
ModulePath == <<"example.com/app">>

\* pkgImport + "/config"
ConfigUnderModule == <<"example.com/app/config">>

Env(entries, moduleFound, configDir, runtimeDir) ==
    [dir |-> [readable |-> TRUE, entries |-> entries],
     moduleFound |-> moduleFound, configDir |-> configDir, runtimeDir |-> runtimeDir,
     outReadable |-> TRUE]

ForkImports ==
    << ImportSpec(<<"config">>, Quoted(<<"example.com/fork/config">>)),
       ImportSpec(<<"di">>, Quoted(<<"example.com/fork/di">>)) >>

\* os.ReadDir lists by name
EnvChoices ==
    { Env(<<>>, TRUE, TRUE, TRUE),
      Env(<< DirEntry("README.md", FALSE, TRUE, GarbageText),
             DirEntry("deps.go", FALSE, FALSE, HandText(<<>>)),
             DirEntry("old.gen.go", FALSE, TRUE,
                      HandText(<<ImportSpec(<<"config">>, Quoted(<<"example.com/override/config">>))>>)),
             DirEntry("sub", TRUE, TRUE, NoText),
             DirEntry("types.go", FALSE, TRUE, HandText(ForkImports)),
             DirEntry("types_test.go", FALSE, TRUE,
                      HandText(<<ImportSpec(<<"di">>, Quoted(<<"example.com/override/config">>))>>)) >>,
          TRUE, TRUE, TRUE),
      Env(<< DirEntry("types.go", FALSE, TRUE, HandText(<<ImportSpec(<<>>, Quoted(<<"fmt">>))>>)) >>,
          FALSE, FALSE, TRUE),
      Env(<<>>, TRUE, FALSE, FALSE) }

\* inferDIRuntimeImportFromDI2Module("di"): the go.mod of the generator's own
\* module is found; its di directory may be missing
inferDIRuntimeImportFromDI2Module ==
    IF ~env.runtimeDir THEN [die |-> "imports", path |-> <<>>]
    ELSE [die |-> "", path |-> <<"github.com/sghaida/odi/di">>]

\* ---- specs ----

ConfigSpec(enabled, import) ==
    [Enabled |-> enabled, Import |-> import, Type |-> "", FieldName |-> "", ParamName |-> ""]

RequiredDep(name) ==
    [Name |-> <<name>>, Field |-> <<name>>, Type |-> "Dep", Nilable |-> TRUE]

MethodSpec(name, params, returns, requires) ==
    [Name |-> <<name>>, Params |-> params, Returns |-> returns, Requires |-> requires]

ServiceSpec ==
    [kind |-> "service", file |-> "ok", id |-> "service",
     Package |-> <<"svc">>, WrapperBase |-> <<"Svc">>, VersionSuffix |-> <<"V2">>,
     ImplType |-> <<"Impl">>, Constructor |-> <<"NewImpl">>,
     Imports |-> [DI |-> <<>>, Config |-> <<>>],
     Config |-> ConfigSpec(FALSE, <<>>),
     FacadeName |-> <<>>, PublicConstructorName |-> <<SP>>,
     InjectPolicy |-> "",
     Required |-> <<RequiredDep("B"), RequiredDep("A")>>,
     Optional |-> << [Name |-> <<"Tracer">>, Type |-> "Tracer", RegistryKey |-> "k.tracer",
                      Apply |-> [Kind |-> "setter", Name |-> "SetTracer"],
                      DefaultExpr |-> "NoopTracer{}"] >>,
     Methods |-> << MethodSpec("Load", <<"context.Context">>, <<"int", "error">>, <<"A">>),
                    MethodSpec("Fire", <<>>, <<>>, <<"B">>) >>,
     Roots |-> <<>>]

GraphSpec ==
    [kind |-> "graph", file |-> "ok", id |-> "graph",
     Package |-> <<"svc">>,
     Imports |-> [DI |-> <<>>, Config |-> <<>>],
     Config |-> ConfigSpec(FALSE, <<>>),
     Roots |-> << [Name |-> <<"Wire">>, BuildWithRegistry |-> TRUE,
                   Services |-> << [Var |-> <<"voucher">>, FacadeCtor |-> "NewVoucherV2"],
                                   [Var |-> <<"order">>, FacadeCtor |-> "NewOrderV2"] >>,
                   Wiring |-> << [To |-> <<"voucher">>, Call |-> <<"InjectOrder">>, ArgFrom |-> <<"order">>],
                                 [To |-> <<"order">>, Call |-> <<"InjectVoucher">>, ArgFrom |-> <<"voucher">>] >>] >>]

\* the spec files a run may be pointed at
SpecChoices ==
    { ServiceSpec,
      [ServiceSpec EXCEPT !.id = "service+config", !.Config = ConfigSpec(TRUE, <<>>)],
      [ServiceSpec EXCEPT !.id = "service+pair",
          !.Methods = <<MethodSpec("Pair", <<>>, <<"int", "string">>, <<"A">>)>>],
      [ServiceSpec EXCEPT !.id = "service-package", !.Package = <<SP>>],
      [ServiceSpec EXCEPT !.id = "service-nojson", !.file = "badjson"],
      GraphSpec,
      [GraphSpec EXCEPT !.id = "graph+config", !.Config = ConfigSpec(TRUE, <<SP, "example.com/override/config">>)],
      [GraphSpec EXCEPT !.id = "graph-missing", !.file = "missing"] }

sha256Hex(raw) == <<"sha256", raw.id>>

applyConfigDefaults(c) ==
    [c EXCEPT !.Type = IF c.Type = "" THEN "config.Config" ELSE c.Type,
              !.FieldName = IF c.FieldName = "" THEN "cfg" ELSE c.FieldName,
              !.ParamName = IF c.ParamName = "" THEN "cfg" ELSE c.ParamName]

\* the test of nilable left out
validateServiceSpec_AnyNilable(s) ==
    IF \/ \E v \in {s.Package, s.WrapperBase, s.VersionSuffix, s.ImplType, s.Constructor} :
             TrimSpace(v) = <<>>
       \/ Len(s.Required) = 0
       \/ \E i \in 1..Len(s.Required) :
             LET d == s.Required[i]
             IN d.Name = <<>> \/ d.Field = <<>> \/ d.Type = ""
       \/ \E i \in 1..Len(s.Optional) :
             LET o == s.Optional[i]
             IN \/ o.Name = <<>> \/ o.Type = "" \/ o.RegistryKey = ""
                \/ o.Apply.Kind = "" \/ o.Apply.Name = ""
                \/ o.Apply.Kind \notin {"setter", "field"}
       \/ \E i \in 1..Len(s.Methods) : s.Methods[i].Name = <<>>
       \/ s.InjectPolicy \notin {"", "error", "ignore", "overwrite"}
    THEN "validate" ELSE ""

\* "" when the spec passes, else the stage name the run dies in
validateServiceSpec(s) ==
    IF \/ \E v \in {s.Package, s.WrapperBase, s.VersionSuffix, s.ImplType, s.Constructor} :
             TrimSpace(v) = <<>>
       \/ Len(s.Required) = 0
       \/ \E i \in 1..Len(s.Required) :
             LET d == s.Required[i]
             IN d.Name = <<>> \/ d.Field = <<>> \/ d.Type = "" \/ ~d.Nilable
       \/ \E i \in 1..Len(s.Optional) :
             LET o == s.Optional[i]
             IN \/ o.Name = <<>> \/ o.Type = "" \/ o.RegistryKey = ""
                \/ o.Apply.Kind = "" \/ o.Apply.Name = ""
                \/ o.Apply.Kind \notin {"setter", "field"}
       \/ \E i \in 1..Len(s.Methods) : s.Methods[i].Name = <<>>
       \/ s.InjectPolicy \notin {"", "error", "ignore", "overwrite"}
    THEN "validate" ELSE ""

validateGraphSpec(g) ==
    IF TrimSpace(g.Package) = <<>> \/ Len(g.Roots) = 0 THEN "validate" ELSE ""

\* the sibling sources asked before the spec
inferImportsForService_SiblingFirst(s) ==
    LET scanned == scanPackageImports(env.dir)
        cfgFound == findImportByAliasOrSuffix(scanned, "config", "/config")
        cfg1 == IF cfgFound.ok THEN cfgFound.gi.Path
                ELSE IF TrimSpace(s.Config.Import) # <<>> THEN TrimSpace(s.Config.Import)
                ELSE s.Imports.Config
        fallback == TrimSpace(cfg1) = <<>>
        cfgDie == s.Config.Enabled /\ fallback
                    /\ (~env.moduleFound \/ TrimSpace(ModulePath) = <<>> \/ ~env.configDir)
        cfg == IF ~s.Config.Enabled THEN <<>>
               ELSE IF fallback THEN ConfigUnderModule ELSE cfg1
        diFound == findImportByAliasOrSuffix(scanned, "di", "/di")
        runtime == inferDIRuntimeImportFromDI2Module
        diDie == TrimSpace(s.Imports.DI) = <<>> /\ ~diFound.ok /\ runtime.die # ""
        di == IF TrimSpace(s.Imports.DI) # <<>> THEN s.Imports.DI
              ELSE IF diFound.ok THEN diFound.gi.Path ELSE runtime.path
    IN [die |-> IF cfgDie \/ diDie THEN "imports" ELSE "",
        spec |-> [s EXCEPT !.Imports = [DI |-> di, Config |-> cfg]]]

\* [die, spec]: the spec with Imports.Config and Imports.DI resolved
inferImportsForService(s) ==
    LET scanned == scanPackageImports(env.dir)
        cfgFound == findImportByAliasOrSuffix(scanned, "config", "/config")
        cfg1 == IF TrimSpace(s.Config.Import) # <<>> THEN TrimSpace(s.Config.Import)
                ELSE IF TrimSpace(s.Imports.Config) = <<>> /\ cfgFound.ok THEN cfgFound.gi.Path
                ELSE s.Imports.Config
        fallback == TrimSpace(cfg1) = <<>>
        cfgDie == s.Config.Enabled /\ fallback
                    /\ (~env.moduleFound \/ TrimSpace(ModulePath) = <<>> \/ ~env.configDir)
        cfg == IF ~s.Config.Enabled THEN <<>>
               ELSE IF fallback THEN ConfigUnderModule ELSE cfg1
        diFound == findImportByAliasOrSuffix(scanned, "di", "/di")
        runtime == inferDIRuntimeImportFromDI2Module
        diDie == TrimSpace(s.Imports.DI) = <<>> /\ ~diFound.ok /\ runtime.die # ""
        di == IF TrimSpace(s.Imports.DI) # <<>> THEN s.Imports.DI
              ELSE IF diFound.ok THEN diFound.gi.Path ELSE runtime.path
    IN [die |-> IF cfgDie \/ diDie THEN "imports" ELSE "",
        spec |-> [s EXCEPT !.Imports = [DI |-> di, Config |-> cfg]]]

\* the same steps on a GraphSpec
inferImportsForGraph(g) == inferImportsForService(g)

\* whatever is at the output path is taken for a Go file
readImportsFromExistingOut_Unchecked == ImportsOf(outFile.text)

\* os.Stat, os.ReadFile and parser.ParseFile each return nil on an error
readImportsFromExistingOut ==
    IF ~outFile.exists \/ ~env.outReadable \/ ~ParsesImportsOnly(outFile)
    THEN <<>> ELSE ImportsOf(outFile.text)

methodUsesPkgQualifier(methods, pkg) ==
    \E i \in 1..Len(methods) :
        \/ \E k \in 1..Len(methods[i].Params) : TypeContains(methods[i].Params[k], pkg)
        \/ \E k \in 1..Len(methods[i].Returns) : TypeContains(methods[i].Returns[k], pkg)

\* the import block both templates render: alias, then the path between quotes
RenderImports(imports) ==
    [i \in 1..Len(imports) |-> ImportSpec(imports[i].Name, Quoted(imports[i].Path))]

\* serviceTpl: the header, the import block and the declarations
serviceTplExec(s, hash, imports) ==
    [kind |-> "service", hash |-> hash, pkg |-> s.Package,
     imports |-> RenderImports(imports),
     body |-> [facade |-> s.FacadeName,
               policy |-> s.InjectPolicy,
               ctor |-> s.PublicConstructorName,
               ctorParams |-> IF s.Config.Enabled
                              THEN <<[name |-> s.Config.ParamName, type |-> s.Config.Type]>>
                              ELSE <<>>,
               required |-> s.Required,
               optional |-> s.Optional,
               methods |-> [i \in 1..Len(s.Methods) |->
                               [sig |-> s.Methods[i], onError |-> WrapperOnError(s.Methods[i])]]],
     gofmt |-> FALSE]

\* graphTpl: per root the result type and the composition function
graphTplExec(g, hash, imports) ==
    [kind |-> "graph", hash |-> hash, pkg |-> g.Package,
     imports |-> RenderImports(imports),
     body |-> [roots |-> [i \in 1..Len(g.Roots) |->
                  [name |-> g.Roots[i].Name,
                   params |-> IF g.Config.Enabled
                              THEN <<[name |-> g.Config.ParamName, type |-> g.Config.Type],
                                     [name |-> "reg", type |-> "di.Registry"]>>
                              ELSE <<[name |-> "reg", type |-> "di.Registry"]>>,
                   construct |-> g.Roots[i].Services,
                   wire |-> g.Roots[i].Wiring,
                   build |-> [k \in 1..Len(g.Roots[i].Services) |->
                                 [var |-> g.Roots[i].Services[k].Var,
                                  call |-> IF g.Roots[i].BuildWithRegistry
                                           THEN "BuildWith" ELSE "Build"]]]]],
     gofmt |-> FALSE]

\* what a run has when it stops before writeFormatted, or when it enters it
Died(stage) == [die |-> stage, src |-> NoText]
Rendered(src) == [die |-> "", src |-> src]

\* genService, lines 205-241: the sorts, the imports, the template
serviceRequiredImports(s) ==
    << GoImport(<<>>, <<"fmt">>), GoImport(<<>>, <<"strings">>),
       GoImport(<<"di">>, s.Imports.DI) >>
    \o (IF s.Config.Enabled THEN <<GoImport(<<"config">>, s.Imports.Config)>> ELSE <<>>)
    \o (IF methodUsesPkgQualifier(s.Methods, "context")
        THEN <<GoImport(<<>>, <<"context">>)>> ELSE <<>>)
    \o (IF methodUsesPkgQualifier(s.Methods, "time")
        THEN <<GoImport(<<>>, <<"time">>)>> ELSE <<>>)

serviceRender(s) ==
    Rendered(serviceTplExec(s, sha256Hex(s),
                            mergeImports(serviceRequiredImports(s), readImportsFromExistingOut)))

serviceSorted(s) ==
    [s EXCEPT !.Required = SortByName(s.Required),
              !.Optional = SortByName(s.Optional),
              !.Methods = SortByName(s.Methods)]

serviceInferred(inf) ==
    IF inf.die # "" THEN Died(inf.die) ELSE serviceRender(serviceSorted(inf.spec))

\* genService, lines 188-196: the defaults of the names and of the policy
serviceDefaults(s) ==
    [s EXCEPT
        !.FacadeName = IF TrimSpace(s.FacadeName) = <<>>
                       THEN s.WrapperBase \o s.VersionSuffix ELSE s.FacadeName,
        !.PublicConstructorName =
            IF TrimSpace(s.PublicConstructorName) = <<>>
            THEN <<"New">> \o s.WrapperBase \o s.VersionSuffix
            ELSE s.PublicConstructorName,
        !.InjectPolicy = InjectPolicyOnOverwrite(s.InjectPolicy)]

serviceValidated(s) ==
    IF validateServiceSpec(s) # "" THEN Died(validateServiceSpec(s))
    ELSE serviceInferred(inferImportsForService(serviceDefaults(s)))

genService(raw) ==
    IF raw.file = "missing" THEN Died("read")
    ELSE IF raw.file = "badjson" THEN Died("json")
    ELSE serviceValidated([raw EXCEPT !.Config = applyConfigDefaults(raw.Config)])

SortRoot(root) ==
    [root EXCEPT
        !.Services = SortSlice(root.Services,
            [a, b \in 1..Len(root.Services) |->
                StrLess(root.Services[a].Var, root.Services[b].Var)]),
        !.Wiring = SortSlice(root.Wiring,
            [a, b \in 1..Len(root.Wiring) |->
                StrLess(root.Wiring[a].To \o root.Wiring[a].Call \o root.Wiring[a].ArgFrom,
                        root.Wiring[b].To \o root.Wiring[b].Call \o root.Wiring[b].ArgFrom)])]

graphRequiredImports(g) ==
    << GoImport(<<>>, <<"fmt">>), GoImport(<<"di">>, g.Imports.DI) >>
    \o (IF g.Config.Enabled THEN <<GoImport(<<"config">>, g.Imports.Config)>> ELSE <<>>)

graphRender(g) ==
    Rendered(graphTplExec(g, sha256Hex(g),
                          mergeImports(graphRequiredImports(g), readImportsFromExistingOut)))

graphSorted(g) ==
    [g EXCEPT !.Roots = SortByName([i \in 1..Len(g.Roots) |-> SortRoot(g.Roots[i])])]

graphInferred(inf) ==
    IF inf.die # "" THEN Died(inf.die) ELSE graphRender(graphSorted(inf.spec))

graphValidated(g) ==
    IF validateGraphSpec(g) # "" THEN Died(validateGraphSpec(g))
    ELSE graphInferred(inferImportsForGraph(g))

genGraph(raw) ==
    IF raw.file = "missing" THEN Died("read")
    ELSE IF raw.file = "badjson" THEN Died("json")
    ELSE graphValidated([raw EXCEPT !.Config = applyConfigDefaults(raw.Config)])

\* ---- runs ----

MaxRuns == 2

NoRun == [spec |-> [kind |-> "none"], before |-> NoSrcFile, src |-> NoText, fmt |-> [ok |-> FALSE, text |-> NoText]]

\* what may lie at the output path before the first run
InitialOutFiles ==
    { NoSrcFile,
      SrcFile(GarbageText, "full"),
      SrcFile(HandText(<<ImportSpec(<<"keep">>, Quoted(<<"example.com/keep/me">>))>>), "full"),
      SrcFile(HandText(<<ImportSpec(<<"keep">>, RawQuoted(<<"example.com/keep/me">>))>>), "full"),
      SrcFile(HandText(<<ImportSpec(<<>>, <<DQ, "example.com/keep/me", BS, DQ, DQ>>)>>), "full") }

GenInit ==
    /\ env \in EnvChoices
    /\ outFile \in InitialOutFiles
    /\ parserChecksImportPath \in BOOLEAN
    /\ gpc = "idle"
    /\ grun = NoRun
    /\ ghist = <<>>

GenIdle ==
    /\ env = Env(<<>>, TRUE, TRUE, TRUE)
    /\ outFile = NoSrcFile
    /\ parserChecksImportPath = TRUE
    /\ gpc = "idle"
    /\ grun = NoRun
    /\ ghist = <<>>

\* nothing is handed over when formatting failed
WriteData_FormattedOnly(run) == IF run.fmt.ok THEN run.fmt.text ELSE NoText

\* the bytes writeFormatted hands to os.WriteFile
WriteData(run) == IF run.fmt.ok THEN run.fmt.text ELSE run.src

Finished(run, after, status, written) ==
    [spec |-> run.spec, before |-> run.before, data |-> WriteData(run), after |-> after,
     status |-> status, written |-> written]

\* the run as it enters writeFormatted
RunOf(raw, g) == [spec |-> raw, before |-> outFile, src |-> g.src, fmt |-> formatSource(g.src)]

\* a run that goes on to the write whatever came before
Started_WritesAnyway(g, run) ==
    /\ grun' = run
    /\ gpc' = "open"
    /\ UNCHANGED ghist

Started(g, run) ==
    IF g.die # ""
    THEN /\ ghist' = Append(ghist, Finished(run, outFile, g.die, "none"))
         /\ UNCHANGED <<gpc, grun>>
    ELSE /\ grun' = run
         /\ gpc' = "open"
         /\ UNCHANGED ghist

Generated(raw, g) == Started(g, RunOf(raw, g))

\* genService / genGraph up to the call of os.WriteFile in writeFormatted
StartRun(raw) ==
    /\ gpc = "idle"
    /\ Len(ghist) < MaxRuns
    /\ GenFrame
    /\ Generated(raw, IF raw.kind = "service" THEN genService(raw) ELSE genGraph(raw))
    /\ UNCHANGED <<env, outFile, parserChecksImportPath>>

\* os.WriteFile, first half: OpenFile(name, O_WRONLY|O_CREATE|O_TRUNC, perm)
OpenTrunc(ok) ==
    /\ gpc = "open"
    /\ GenFrame
    /\ IF ok
       THEN /\ outFile' = SrcFile(WriteData(grun), "empty")
            /\ gpc' = "write"
            /\ UNCHANGED <<grun, ghist>>
       ELSE /\ ghist' = Append(ghist, Finished(grun, outFile, IF grun.fmt.ok THEN "write" ELSE "format", "none"))
            /\ gpc' = "idle"
            /\ grun' = NoRun
            /\ UNCHANGED outFile
    /\ UNCHANGED <<env, parserChecksImportPath>>

\* os.WriteFile, second half: f.Write(data) and f.Close(); a failed write
\* leaves a prefix.  Then writeFormatted returns, or dies on the format error.
WriteAll(cut) ==
    /\ gpc = "write"
    /\ GenFrame
    /\ outFile' = SrcFile(WriteData(grun), cut)
    /\ ghist' = Append(ghist, Finished(grun, outFile',
                    IF ~grun.fmt.ok THEN "format" ELSE IF cut # "full" THEN "write" ELSE "ok",
                    cut))
    /\ gpc' = "idle"
    /\ grun' = NoRun
    /\ UNCHANGED <<env, parserChecksImportPath>>

GenNext ==
    \/ \E raw \in SpecChoices : StartRun(raw)
    \/ \E ok \in BOOLEAN : OpenTrunc(ok)
    \/ \E cut \in {"empty", "head", "body", "full"} : WriteAll(cut)

(***************************************************************************)
(* Claims about the generator.                                             *)
(***************************************************************************)

\* the runs that wrote all their bytes
WroteAll(r) == r.written = "full"

\* C4: while a run is under way, and once it has ended, the output path holds
\* its content from before the run or the complete bytes of the run, never an
\* empty or cut file.
C4_OutputOldOrComplete ==
    /\ gpc # "idle" => outFile \in {grun.before, SrcFile(WriteData(grun), "full")}
    /\ \A i \in 1..Len(ghist) :
          ghist[i].after \in {ghist[i].before, SrcFile(ghist[i].data, "full")}

\* C5: of two successive runs on the same spec that both wrote their output,
\* the second leaves the bytes the first left, whatever lay at the output path
\* before the first.
C5_SecondRunIdentical ==
    \A i \in 1..(Len(ghist) - 1) :
        (ghist[i].spec = ghist[i + 1].spec /\ WroteAll(ghist[i]) /\ WroteAll(ghist[i + 1]))
            => ghist[i + 1].after = ghist[i].after

\* C6: a run with config disabled that succeeds leaves no import under the
\* alias config and no config parameter on the constructor, whatever the run
\* before it left at the output path.
C6_NoConfigWhenDisabled ==
    \A i \in 1..Len(ghist) :
        LET r == ghist[i]
        IN (r.status = "ok" /\ ~r.spec.Config.Enabled) =>
              /\ \A k \in 1..Len(r.after.text.imports) :
                    r.after.text.imports[k].Name # <<"config">>
              /\ r.spec.kind = "service" => r.after.text.body.ctorParams = <<>>

\* a method with two or more returns, the last of them not error
HasUnsafeReturns(raw) ==
    /\ raw.kind = "service"
    /\ \E i \in 1..Len(raw.Methods) :
          LET rs == raw.Methods[i].Returns IN Len(rs) >= 2 /\ ~isError(rs[Len(rs)])

\* C10: a run on a service spec with such a method ends in an error and
\* leaves the output path as it was.
C10_UnsafeReturnsAbort ==
    \A i \in 1..Len(ghist) :
        HasUnsafeReturns(ghist[i].spec) =>
            /\ ghist[i].status # "ok"
            /\ ghist[i].written = "none"
            /\ ghist[i].after = ghist[i].before

(***************************************************************************)
(* Part 4b.  The generator up to the call of writeFormatted, over specs    *)
(* and package directories chosen to exercise validation and the           *)
(* resolution of the config and di imports.                                *)
(***************************************************************************)

\* the spec files a run is pointed at here
ResolveSpecs ==
    { ServiceSpec,
      [ServiceSpec EXCEPT !.id = "service+config", !.Config = ConfigSpec(TRUE, <<>>)],
      [ServiceSpec EXCEPT !.id = "service+config+import",
          !.Config = ConfigSpec(TRUE, <<SP, "example.com/override/config">>),
          !.Imports = [DI |-> <<>>, Config |-> <<"example.com/set/config">>]],
      [ServiceSpec EXCEPT !.id = "service+config+set",
          !.Config = ConfigSpec(TRUE, <<SP>>),
          !.Imports = [DI |-> <<>>, Config |-> <<"example.com/set/config">>]],
      [ServiceSpec EXCEPT !.id = "service+twice",
          !.Required = <<RequiredDep("A"), RequiredDep("A")>>],
      [ServiceSpec EXCEPT !.id = "service+shared",
          !.Required = <<RequiredDep("Tracer"), RequiredDep("A")>>],
      [ServiceSpec EXCEPT !.id = "service-package", !.Package = <<SP>>],
      [GraphSpec EXCEPT !.id = "graph+config", !.Config = ConfigSpec(TRUE, <<>>)],
      [GraphSpec EXCEPT !.id = "graph-nojson", !.file = "badjson"] }

SiblingFile(name, imports) == DirEntry(name, FALSE, TRUE, HandText(imports))

\* two source files, in either order, their import lines in every order
SiblingDirs(a, b) ==
    UNION { { <<SiblingFile("deps.go", x), SiblingFile("types.go", y)>>,
              <<SiblingFile("types.go", y), SiblingFile("deps.go", x)>> } :
            x \in Reorderings(a), y \in Reorderings(b) }

\* the import named config sorts after an import that ends in /config
AliasedLate ==
    SiblingDirs(<< ImportSpec(<<>>, Quoted(<<"example.com/app/config">>)),
                   ImportSpec(<<>>, Quoted(<<"fmt">>)) >>,
                << ImportSpec(<<"config">>, Quoted(<<"example.com/zz/settings">>)),
                   ImportSpec(<<"di">>, Quoted(<<"example.com/fork/di">>)) >>)

\* no import is named config; three end in /config
SuffixOnly ==
    SiblingDirs(<< ImportSpec(<<>>, Quoted(<<"example.com/fork/config">>)),
                   ImportSpec(<<"keep">>, Quoted(<<"example.com/app/config">>)) >>,
                << ImportSpec(<<>>, Quoted(<<"example.com/app/config">>)),
                   ImportSpec(<<>>, Quoted(<<"fmt">>)) >>)

ResolveEnvs ==
    { Env(entries, TRUE, TRUE, TRUE) : entries \in AliasedLate \cup SuffixOnly }
    \cup { Env(<<>>, TRUE, TRUE, TRUE), Env(<<>>, FALSE, TRUE, TRUE),
           Env(<<>>, TRUE, FALSE, TRUE), Env(<<>>, TRUE, TRUE, FALSE) }

ResolveInit ==
    /\ env \in ResolveEnvs
    /\ outFile \in { NoSrcFile,
                     SrcFile(HandText(<<ImportSpec(<<"keep">>, Quoted(<<"example.com/keep/me">>))>>), "full") }
    /\ parserChecksImportPath \in BOOLEAN
    /\ gpc = "idle"
    /\ grun = NoRun
    /\ ghist = <<>>

ResolveNext == \E raw \in ResolveSpecs : StartRun(raw)

(***************************************************************************)
(* Claims about validation and import resolution.                          *)
(***************************************************************************)

\* the values of q are pairwise distinct
Distinct(q) == \A i, j \in 1..Len(q) : q[i] = q[j] => i = j

DepNames(s) ==
    [i \in 1..Len(s.Required) |-> s.Required[i].Name]
    \o [i \in 1..Len(s.Optional) |-> s.Optional[i].Name]

DepFields(s) == [i \in 1..Len(s.Required) |-> s.Required[i].Field]

\* C13: a service spec that got through validation, so that the run rendered
\* its source, has pairwise distinct dependency names over required and
\* optional dependencies and pairwise distinct dependency fields.
C13_RepeatedNamesRejected ==
    (gpc = "open" /\ grun.spec.kind = "service") =>
        Distinct(DepNames(grun.spec)) /\ Distinct(DepFields(grun.spec))

\* the imports of the sibling sources as a set, whatever order they were met in
ScannedSet == Range(ScanEntries(env.dir.entries))

\* the least import of a set in (path, alias) order
LeastImport(S) == CHOOSE x \in S : \A y \in S \ {x} : ImportLess(x, y)

\* an import named alias if there is one, else one that ends in suffix
SiblingChoice(alias, suffix) ==
    LET named == {g \in ScannedSet : g.Name = <<alias>>}
        ending == {g \in ScannedSet : HasSuffix(g.Path, suffix)}
    IN IF named # {} THEN [ok |-> TRUE, gi |-> LeastImport(named)]
       ELSE IF ending # {} THEN [ok |-> TRUE, gi |-> LeastImport(ending)]
       ELSE [ok |-> FALSE, gi |-> NoImport]

\* the config import by priority: the override, the path set in the spec, a
\* sibling import, the config directory under the module
ExpectedConfig(s) ==
    IF TrimSpace(s.Config.Import) # <<>> THEN [ok |-> TRUE, path |-> TrimSpace(s.Config.Import)]
    ELSE IF TrimSpace(s.Imports.Config) # <<>> THEN [ok |-> TRUE, path |-> s.Imports.Config]
    ELSE IF SiblingChoice("config", "/config").ok
         THEN [ok |-> TRUE, path |-> SiblingChoice("config", "/config").gi.Path]
    ELSE IF env.moduleFound /\ env.configDir THEN [ok |-> TRUE, path |-> ConfigUnderModule]
    ELSE [ok |-> FALSE, path |-> <<>>]

DIResolvable(s) ==
    TrimSpace(s.Imports.DI) # <<>> \/ SiblingChoice("di", "/di").ok \/ env.runtimeDir

\* the import lines of a rendered source
ImportLines(text) == Range(text.imports)

\* C14: a run with config enabled that rendered its source imports config from
\* the path the priority order gives; a run for which no rule gives a path
\* stops in import resolution with the output path untouched; and resolution
\* stops a run only when the config or the di import cannot be resolved.
C14_ConfigImportPriority ==
    /\ (gpc = "open" /\ grun.spec.Config.Enabled) =>
          /\ ExpectedConfig(grun.spec).ok
          /\ ImportSpec(<<"config">>, Quoted(ExpectedConfig(grun.spec).path))
                \in ImportLines(grun.src)
    /\ \A i \in 1..Len(ghist) :
          LET r == ghist[i]
          IN /\ (/\ r.spec.Config.Enabled
                 /\ r.status \notin {"read", "json", "validate"}
                 /\ ~ExpectedConfig(r.spec).ok)
                   => r.status = "imports" /\ r.written = "none" /\ r.after = r.before
             /\ r.status = "imports" =>
                   \/ r.spec.Config.Enabled /\ ~ExpectedConfig(r.spec).ok
                   \/ ~DIResolvable(r.spec)

\* the run without an import of its own failed, the next one took its override
C14_Witness ==
    /\ Len(ghist) = 1
    /\ ghist[1].spec.id = "service+config"
    /\ ghist[1].status = "imports"
    /\ gpc = "open"
    /\ grun.spec.id = "service+config+import"
    /\ ImportSpec(<<"config">>, Quoted(<<"example.com/override/config">>)) \in ImportLines(grun.src)

\* C15: over the imports scanned from the sibling sources the resolver takes
\* an import named as asked for when there is one, else the first in (path,
\* alias) order that ends in the suffix, whatever the order of the directory
\* entries and of the import lines; a run that leaves the choice to the
\* siblings renders that path.
C15_SiblingChoiceByAliasThenSuffix ==
    /\ findImportByAliasOrSuffix(scanPackageImports(env.dir), "config", "/config")
          = SiblingChoice("config", "/config")
    /\ findImportByAliasOrSuffix(scanPackageImports(env.dir), "di", "/di")
          = SiblingChoice("di", "/di")
    /\ (/\ gpc = "open"
        /\ grun.spec.Config.Enabled
        /\ TrimSpace(grun.spec.Config.Import) = <<>>
        /\ TrimSpace(grun.spec.Imports.Config) = <<>>
        /\ SiblingChoice("config", "/config").ok)
          => ImportSpec(<<"config">>, Quoted(SiblingChoice("config", "/config").gi.Path))
                \in ImportLines(grun.src)

\* types.go is listed before deps.go and names config in its second import
\* line; the import ending in /config sorts first, the named one is taken
C15_Witness ==
    /\ gpc = "open"
    /\ grun.spec.id = "service+config"
    /\ Len(env.dir.entries) = 2
    /\ env.dir.entries[1].name = "types.go"
    /\ env.dir.entries[1].text.imports[2].Name = <<"config">>
    /\ scanPackageImports(env.dir)[1] = GoImport(<<>>, <<"example.com/app/config">>)
    /\ ImportSpec(<<"config">>, Quoted(<<"example.com/zz/settings">>)) \in ImportLines(grun.src)

(***************************************************************************)
(* Part 4c.  Whole runs, over specs that stop at each stage before the     *)
(* write and output files whose preserved imports make formatting fail.    *)
(***************************************************************************)

AbortSpecs ==
    { ServiceSpec,
      [ServiceSpec EXCEPT !.id = "service+config", !.Config = ConfigSpec(TRUE, <<>>)],
      [ServiceSpec EXCEPT !.id = "service-package", !.Package = <<SP>>],
      [ServiceSpec EXCEPT !.id = "service-nojson", !.file = "badjson"],
      [GraphSpec EXCEPT !.id = "graph-missing", !.file = "missing"] }

\* with no config directory a spec that enables config has nothing to import
AbortInit ==
    /\ env \in {Env(<<>>, TRUE, TRUE, TRUE), Env(<<>>, TRUE, FALSE, TRUE)}
    /\ outFile \in
         { NoSrcFile,
           SrcFile(HandText(<<ImportSpec(<<"keep">>, RawQuoted(<<"example.com/keep/me">>))>>), "full"),
           SrcFile(HandText(<<ImportSpec(<<>>, <<DQ, "example.com/keep/me", BS, DQ, DQ>>)>>), "full") }
    /\ parserChecksImportPath \in BOOLEAN
    /\ gpc = "idle"
    /\ grun = NoRun
    /\ ghist = <<>>

AbortNext ==
    \/ \E raw \in AbortSpecs : StartRun(raw)
    \/ \E ok \in BOOLEAN : OpenTrunc(ok)
    \/ \E cut \in {"empty", "head", "body", "full"} : WriteAll(cut)

\* the spec file cannot be read or parsed, the spec does not validate, or its
\* imports cannot be resolved
FailsBeforeWrite(s) ==
    \/ s.file \in {"missing", "badjson"}
    \/ s.kind = "service" /\ validateServiceSpec(s) # ""
    \/ s.kind = "graph" /\ validateGraphSpec(s) # ""
    \/ s.Config.Enabled /\ ~ExpectedConfig(s).ok
    \/ ~DIResolvable(s)

C17_FailedRunsRecorded ==
    /\ gpc # "idle" => ~FailsBeforeWrite(grun.spec)
    /\ \A i \in 1..Len(ghist) :
          FailsBeforeWrite(ghist[i].spec) =>
              /\ ghist[i].status \in {"read", "json", "validate", "imports"}
              /\ ghist[i].written = "none"
              /\ ghist[i].after = ghist[i].before

C17_OnlyOtherRunsWrite ==
    outFile' # outFile => gpc \in {"open", "write"} /\ ~FailsBeforeWrite(grun.spec)

\* C17: a run whose spec cannot be read or parsed, does not validate or
\* cannot have its imports resolved ends with the output path as it was, and
\* no step of such a run touches the output path.
C17_FailedRunsLeaveOutput == []C17_FailedRunsRecorded /\ [][C17_OnlyOtherRunsWrite]_vars

\* a first run wrote the file; a second one stopped in import resolution and
\* the file of the first is still there
C17_Witness ==
    /\ Len(ghist) = 2
    /\ ghist[1].status = "ok"
    /\ ghist[2].status = "imports"
    /\ outFile.exists
    /\ outFile = ghist[1].after
    /\ outFile # ghist[1].before

\* the last run of the history
LastRun(h) == h[Len(h)]

C18_FormatFailureStep ==
    (gpc \in {"open", "write"} /\ ~formatSource(grun.src).ok /\ gpc' = "idle") =>
        /\ LastRun(ghist').status = "format"
        /\ LastRun(ghist').written = "full" => outFile' = SrcFile(grun.src, "full")

\* C18: when format.Source rejects the rendered source the run ends in the
\* formatting error, and when os.WriteFile got through the output path holds
\* the rendered source as it came from the template, in place of what was there.
C18_UnformattedWritten == [][C18_FormatFailureStep]_vars

\* a hand-edited output file was replaced by a source that does not format
C18_Witness ==
    /\ Len(ghist) >= 1
    /\ LastRun(ghist).status = "format"
    /\ LastRun(ghist).written = "full"
    /\ LastRun(ghist).before.exists
    /\ LastRun(ghist).before.text.kind = "hand"
    /\ outFile = SrcFile(LastRun(ghist).data, "full")
    /\ ~formatSource(outFile.text).ok
    /\ ~outFile.text.gofmt

(***************************************************************************)
(* Part 4d.  validateServiceSpec over service specs that differ from a     *)
(* valid one in a single field.                                            *)
(***************************************************************************)

\* ServiceSpec with its second required dependency, its optional dependency
\* or its first method replaced
WithRequired(id, d) == [ServiceSpec EXCEPT !.id = id, !.Required = <<RequiredDep("B"), d>>]
WithOptional(id, o) == [ServiceSpec EXCEPT !.id = id, !.Optional = <<o>>]
WithMethod(id, m) == [ServiceSpec EXCEPT !.id = id, !.Methods = <<m, MethodSpec("Fire", <<>>, <<>>, <<"B">>)>>]

ValidateSpecs ==
    { ServiceSpec,
      [ServiceSpec EXCEPT !.id = "package-empty", !.Package = <<>>],
      [ServiceSpec EXCEPT !.id = "package-blank", !.Package = <<SP>>],
      [ServiceSpec EXCEPT !.id = "wrapperBase-blank", !.WrapperBase = <<SP, SP>>],
      [ServiceSpec EXCEPT !.id = "versionSuffix-empty", !.VersionSuffix = <<>>],
      [ServiceSpec EXCEPT !.id = "implType-blank", !.ImplType = <<SP>>],
      [ServiceSpec EXCEPT !.id = "constructor-empty", !.Constructor = <<>>],
      [ServiceSpec EXCEPT !.id = "required-none", !.Required = <<>>],
      WithRequired("required-name-empty", [RequiredDep("A") EXCEPT !.Name = <<>>]),
      WithRequired("required-name-blank", [RequiredDep("A") EXCEPT !.Name = <<SP>>]),
      WithRequired("required-field-empty", [RequiredDep("A") EXCEPT !.Field = <<>>]),
      WithRequired("required-type-empty", [RequiredDep("A") EXCEPT !.Type = ""]),
      WithRequired("required-not-nilable", [RequiredDep("A") EXCEPT !.Nilable = FALSE]),
      [ServiceSpec EXCEPT !.id = "optional-none", !.Optional = <<>>],
      WithOptional("optional-name-empty", [ServiceSpec.Optional[1] EXCEPT !.Name = <<>>]),
      WithOptional("optional-type-empty", [ServiceSpec.Optional[1] EXCEPT !.Type = ""]),
      WithOptional("optional-key-empty", [ServiceSpec.Optional[1] EXCEPT !.RegistryKey = ""]),
      WithOptional("optional-kind-empty", [ServiceSpec.Optional[1] EXCEPT !.Apply.Kind = ""]),
      WithOptional("optional-kind-method", [ServiceSpec.Optional[1] EXCEPT !.Apply.Kind = "method"]),
      WithOptional("optional-kind-field", [ServiceSpec.Optional[1] EXCEPT !.Apply.Kind = "field"]),
      WithOptional("optional-apply-empty", [ServiceSpec.Optional[1] EXCEPT !.Apply.Name = ""]),
      [ServiceSpec EXCEPT !.id = "methods-none", !.Methods = <<>>],
      WithMethod("method-name-empty", [MethodSpec("Load", <<>>, <<"error">>, <<"A">>) EXCEPT !.Name = <<>>]),
      WithMethod("method-requires-undeclared", MethodSpec("Load", <<>>, <<"error">>, <<"A", "Tracer">>)),
      [ServiceSpec EXCEPT !.id = "policy-ignore", !.InjectPolicy = "ignore"],
      [ServiceSpec EXCEPT !.id = "policy-overwrite", !.InjectPolicy = "overwrite"],
      [ServiceSpec EXCEPT !.id = "policy-error", !.InjectPolicy = "error"],
      [ServiceSpec EXCEPT !.id = "policy-panic", !.InjectPolicy = "panic"] }

\* a package directory in which every import resolves
ValidateInit ==
    /\ env = Env(<<>>, TRUE, TRUE, TRUE)
    /\ outFile = NoSrcFile
    /\ parserChecksImportPath \in BOOLEAN
    /\ gpc = "idle"
    /\ grun = NoRun
    /\ ghist = <<>>

ValidateNext == \E raw \in ValidateSpecs : StartRun(raw)

\* the conditions under which a service spec is to be accepted
WellFormed(s) ==
    /\ \A v \in {s.Package, s.WrapperBase, s.VersionSuffix, s.ImplType, s.Constructor} :
          TrimSpace(v) # <<>>
    /\ Len(s.Required) >= 1
    /\ \A i \in 1..Len(s.Required) :
          /\ s.Required[i].Name # <<>>
          /\ s.Required[i].Field # <<>>
          /\ s.Required[i].Type # ""
          /\ s.Required[i].Nilable
    /\ \A i \in 1..Len(s.Optional) :
          /\ s.Optional[i].Name # <<>>
          /\ s.Optional[i].Type # ""
          /\ s.Optional[i].RegistryKey # ""
          /\ s.Optional[i].Apply.Name # ""
          /\ s.Optional[i].Apply.Kind \in {"setter", "field"}
    /\ \A i \in 1..Len(s.Methods) : s.Methods[i].Name # <<>>
    /\ s.InjectPolicy \in {"", "error", "ignore", "overwrite"}

\* C20: a run gets past validateServiceSpec exactly when its spec has the
\* five names non-blank, a required dependency, every required dependency
\* with name, field, type and nilable, every optional dependency with name,
\* type, registryKey, apply.name and apply.kind setter or field, every method
\* named, and onOverwrite empty, error, ignore or overwrite.
C20_AcceptsIffWellFormed ==
    /\ gpc = "open" => WellFormed(grun.spec)
    /\ \A i \in 1..Len(ghist) : ghist[i].status = "validate" <=> ~WellFormed(ghist[i].spec)

\* a spec was turned down for a dependency that is not nilable; one with a
\* blank but non-empty dependency name got through
C20_Witness ==
    /\ Len(ghist) = 1
    /\ ghist[1].spec.id = "required-not-nilable" /\ ghist[1].status = "validate"
    /\ gpc = "open"
    /\ grun.spec.id = "required-name-blank"

\* every name a method of s lists under requires is the name of one of the
\* required dependencies of s
RequiresDeclared(s) ==
    \A i \in 1..Len(s.Methods) :
        \A j \in 1..Len(s.Methods[i].Requires) :
            \E k \in 1..Len(s.Required) : s.Required[k].Name = <<s.Methods[i].Requires[j]>>

\* C30: a service spec with a method that requires a name which is not a
\* declared required dependency does not get past validateServiceSpec.
C30_UndeclaredRequiresRejected ==
    /\ gpc = "open" => RequiresDeclared(grun.spec)
    /\ \A i \in 1..Len(ghist) :
          ~RequiresDeclared(ghist[i].spec) => ghist[i].status = "validate"

(***************************************************************************)
(* Part 4e.  Import resolution over package directories that hold, next to *)
(* at most one source file, entries scanPackageImports passes over.        *)
(***************************************************************************)

\* imports that would win the resolution if their file were read
StrayImports ==
    << ImportSpec(<<"config">>, Quoted(<<"example.com/override/config">>)),
       ImportSpec(<<"di">>, Quoted(<<"example.com/override/config">>)) >>

\* deps.go as a file that cannot be read, or as one whose import block does
\* not parse
DepsFiles ==
    { DirEntry("deps.go", FALSE, FALSE, HandText(StrayImports)),
      DirEntry("deps.go", FALSE, TRUE, GarbageText),
      DirEntry("deps.go", FALSE, TRUE,
               HandText(<<ImportSpec(<<"config">>, <<DQ, "example.com/override/config">>)>>)) }

\* a directory listing, by name as os.ReadDir gives it
Listing(deps) ==
    << DirEntry("README.md", FALSE, TRUE, HandText(StrayImports)),
       deps,
       DirEntry("mid.gen.x.go", FALSE, TRUE, HandText(StrayImports)),
       DirEntry("old.gen.go", FALSE, TRUE, HandText(StrayImports)),
       DirEntry("sub", TRUE, TRUE, NoText),
       DirEntry("types.go", FALSE, TRUE, HandText(ForkImports)),
       DirEntry("types_test.go", FALSE, TRUE, HandText(StrayImports)),
       DirEntry("zz_gen.go", FALSE, TRUE, HandText(StrayImports)) >>

\* the entries of q whose position is in I, in order
RECURSIVE Pick(_, _, _)
Pick(q, I, i) ==
    IF i > Len(q) THEN <<>>
    ELSE (IF i \in I THEN <<q[i]>> ELSE <<>>) \o Pick(q, I, i + 1)

ScanDirs == { Pick(Listing(deps), I, 1) : deps \in DepsFiles, I \in SUBSET (1..8) }

ScanSpecs ==
    { ServiceSpec,
      [ServiceSpec EXCEPT !.id = "service+config", !.Config = ConfigSpec(TRUE, <<>>)],
      [GraphSpec EXCEPT !.id = "graph+config", !.Config = ConfigSpec(TRUE, <<>>)] }

ScanInit ==
    /\ env \in { Env(entries, TRUE, TRUE, TRUE) : entries \in ScanDirs }
    /\ outFile = NoSrcFile
    /\ parserChecksImportPath \in BOOLEAN
    /\ gpc = "idle"
    /\ grun = NoRun
    /\ ghist = <<>>

ScanNext == \E raw \in ScanSpecs : StartRun(raw)

\* the directory with nothing in it but its source file, if it has one
SourcesOnly(dir) ==
    [dir EXCEPT !.entries = Pick(dir.entries, {i \in 1..Len(dir.entries) : dir.entries[i].name = "types.go"}, 1)]

HasSource == \E i \in 1..Len(env.dir.entries) : env.dir.entries[i].name = "types.go"

\* C21: the scan of a directory gives what the scan of its source files alone
\* gives; a run renders the di and config imports those files (or, without
\* them, the modules) give; and no run stops in import resolution.
C21_ScanIgnoresOtherEntries ==
    /\ scanPackageImports(env.dir) = scanPackageImports(SourcesOnly(env.dir))
    /\ gpc = "open" =>
          /\ ImportSpec(<<"di">>, Quoted(IF HasSource THEN <<"example.com/fork/di">>
                                         ELSE <<"github.com/sghaida/odi/di">>))
                \in ImportLines(grun.src)
          /\ grun.spec.Config.Enabled =>
                ImportSpec(<<"config">>, Quoted(IF HasSource THEN <<"example.com/fork/config">>
                                                ELSE ConfigUnderModule))
                   \in ImportLines(grun.src)
          /\ \A l \in ImportLines(grun.src) : l.Lit # Quoted(<<"example.com/override/config">>)
    /\ \A i \in 1..Len(ghist) : ghist[i].status # "imports"

\* all eight entries are there, deps.go with a broken import block, and the
\* run imports what types.go imports
C21_Witness ==
    /\ Len(env.dir.entries) = 8
    /\ env.dir.entries[2].readable
    /\ env.dir.entries[2].text.kind = "hand"
    /\ gpc = "open"
    /\ grun.spec.id = "service+config"
    /\ ImportSpec(<<"config">>, Quoted(<<"example.com/fork/config">>)) \in ImportLines(grun.src)

(***************************************************************************)
(* Part 4f.  Runs on specs that list the same dependencies, methods, roots *)
(* and services in different orders.                                       *)
(***************************************************************************)

MetricsDep ==
    [Name |-> <<"Metrics">>, Type |-> "Metrics", RegistryKey |-> "k.metrics",
     Apply |-> [Kind |-> "field", Name |-> "metrics"], DefaultExpr |-> ""]

\* a service spec in every order of its three lists
ServiceOrders ==
    { [ServiceSpec EXCEPT !.id = <<"service", r, o, m>>,
                          !.Required = r, !.Optional = o, !.Methods = m] :
        r \in Reorderings(ServiceSpec.Required),
        o \in Reorderings(ServiceSpec.Optional \o <<MetricsDep>>),
        m \in Reorderings(ServiceSpec.Methods) }

\* a service spec with two required dependencies of one name, in both orders
TwiceOrders ==
    { [ServiceSpec EXCEPT !.id = <<"service+twice", r>>, !.Required = r] :
        r \in Reorderings(<<RequiredDep("A"), [RequiredDep("A") EXCEPT !.Field = <<"B">>]>>) }

\* a graph spec of two roots, in every order of its roots and of their services
GraphOrders ==
    { [GraphSpec EXCEPT !.id = <<"graph", roots>>, !.Roots = roots] :
        roots \in UNION { Reorderings(<< [GraphSpec.Roots[1] EXCEPT !.Services = s],
                                         [GraphSpec.Roots[1] EXCEPT !.Name = <<"Load">>,
                                                                    !.BuildWithRegistry = FALSE] >>) :
                          s \in Reorderings(GraphSpec.Roots[1].Services) } }

OrderSpecs == ServiceOrders \cup TwiceOrders \cup GraphOrders

OrderInit ==
    /\ env \in EnvChoices
    /\ outFile \in { NoSrcFile,
                     SrcFile(HandText(<<ImportSpec(<<"keep">>, Quoted(<<"example.com/keep/me">>))>>), "full") }
    /\ parserChecksImportPath \in BOOLEAN
    /\ gpc = "idle"
    /\ grun = NoRun
    /\ ghist = <<>>

OrderNext == \E raw \in OrderSpecs : StartRun(raw)

\* b lists what a lists, in some order
SameRoot(a, b) ==
    /\ [a EXCEPT !.Services = <<>>] = [b EXCEPT !.Services = <<>>]
    /\ b.Services \in Reorderings(a.Services)

SameServiceUpToOrder(a, b) ==
    /\ [a EXCEPT !.id = "", !.Required = <<>>, !.Optional = <<>>, !.Methods = <<>>]
         = [b EXCEPT !.id = "", !.Required = <<>>, !.Optional = <<>>, !.Methods = <<>>]
    /\ b.Required \in Reorderings(a.Required)
    /\ b.Optional \in Reorderings(a.Optional)
    /\ b.Methods \in Reorderings(a.Methods)

SameGraphUpToOrder(a, b) ==
    /\ [a EXCEPT !.id = "", !.Roots = <<>>] = [b EXCEPT !.id = "", !.Roots = <<>>]
    /\ Len(a.Roots) = Len(b.Roots)
    /\ \E p \in Reorderings([i \in 1..Len(a.Roots) |-> i]) :
          \A i \in 1..Len(a.Roots) : SameRoot(a.Roots[i], b.Roots[p[i]])

SameUpToOrder(a, b) ==
    /\ a.kind = b.kind
    /\ IF a.kind = "service" THEN SameServiceUpToOrder(a, b) ELSE SameGraphUpToOrder(a, b)

\* what a run on raw renders, from where this run stands
RenderOf(raw) == IF raw.kind = "service" THEN genService(raw) ELSE genGraph(raw)

\* the names of q never go down
Ascending(q) == \A i \in 1..(Len(q) - 1) : ~StrLess(q[i + 1], q[i])

NamesOf(q) == [i \in 1..Len(q) |-> q[i].Name]

\* C22: a run renders required and optional dependencies, methods, roots and
\* the services of a root in ascending order of their names, and renders the
\* same declarations as a run on any spec that lists the same things in
\* another order.
C22_ListOrderIrrelevant ==
    gpc = "open" =>
        /\ grun.spec.kind = "service" =>
              /\ Ascending(NamesOf(grun.src.body.required))
              /\ Ascending(NamesOf(grun.src.body.optional))
              /\ Ascending([i \in 1..Len(grun.src.body.methods) |-> grun.src.body.methods[i].sig.Name])
        /\ grun.spec.kind = "graph" =>
              /\ Ascending([i \in 1..Len(grun.src.body.roots) |-> grun.src.body.roots[i].name])
              /\ \A i \in 1..Len(grun.src.body.roots) :
                    Ascending([k \in 1..Len(grun.src.body.roots[i].construct) |->
                                  grun.src.body.roots[i].construct[k].Var])
        /\ \A other \in OrderSpecs :
              SameUpToOrder(grun.spec, other) => RenderOf(other).src.body = grun.src.body

(***************************************************************************)
(* Part 4g.  Whole runs over output paths that hold nothing readable as a  *)
(* Go file.                                                                *)
(***************************************************************************)

KeepFile == SrcFile(HandText(<<ImportSpec(<<"keep">>, Quoted(<<"example.com/keep/me">>))>>), "full")

\* the same file cut short inside its import block
CutFile == SrcFile(HandText(<<ImportSpec(<<"keep">>, Quoted(<<"example.com/keep/me">>))>>), "head")

\* an import whose literal is never closed
BadImportFile == SrcFile(HandText(<<ImportSpec(<<"keep">>, <<DQ, "example.com/keep/me">>)>>), "full")

PreserveInit ==
    /\ env \in { Env(<<>>, TRUE, TRUE, TRUE),
                 [Env(<<>>, TRUE, TRUE, TRUE) EXCEPT !.outReadable = FALSE] }
    /\ outFile \in {NoSrcFile, SrcFile(GarbageText, "full"), KeepFile, CutFile, BadImportFile}
    /\ parserChecksImportPath \in BOOLEAN
    /\ gpc = "idle"
    /\ grun = NoRun
    /\ ghist = <<>>

PreserveNext ==
    \/ \E raw \in {ServiceSpec, GraphSpec} : StartRun(raw)
    \/ \E ok \in BOOLEAN : OpenTrunc(ok)
    \/ \E cut \in {"empty", "head", "body", "full"} : WriteAll(cut)

\* the output path is missing, cannot be read, or does not parse up to the
\* end of its imports
Unusable(f) ==
    \/ ~f.exists
    \/ ~env.outReadable
    \/ f.text.kind = "garbage"
    \/ f.cut \in {"empty", "head"}
    \/ f = BadImportFile

\* the import lines the templates need for ServiceSpec and GraphSpec
RequiredLines(raw) ==
    { ImportSpec(<<>>, Quoted(<<"fmt">>)),
      ImportSpec(<<"di">>, Quoted(<<"github.com/sghaida/odi/di">>)) }
    \cup (IF raw.kind = "service"
          THEN { ImportSpec(<<>>, Quoted(<<"strings">>)), ImportSpec(<<>>, Quoted(<<"context">>)) }
          ELSE {})

\* C23: a run that finds the output path missing, unreadable or unparsable
\* renders the required imports and no others, formats and goes on to the
\* write; it ends in no error but that of the write itself.
C23_UnusableOutputIgnored ==
    /\ (gpc # "idle" /\ Unusable(grun.before)) =>
          ImportLines(grun.src) = RequiredLines(grun.spec) /\ grun.fmt.ok
    /\ \A i \in 1..Len(ghist) :
          Unusable(ghist[i].before) =>
              /\ ghist[i].status \in {"ok", "write"}
              /\ ImportLines(ghist[i].data) = RequiredLines(ghist[i].spec)
              /\ ghist[i].status = "ok" <=> ghist[i].written = "full"

\* the output file has an import to keep but cannot be read: the run wrote
\* the required imports only
C23_Witness ==
    /\ ~env.outReadable
    /\ Len(ghist) = 1
    /\ ghist[1].before = KeepFile
    /\ ghist[1].status = "ok"
    /\ outFile = SrcFile(ghist[1].data, "full")
    /\ ImportLines(outFile.text) = RequiredLines(ghist[1].spec)

(***************************************************************************)
(* Part 4h.  Regenerations at one output path, the spec's overrides of the *)
(* config and di imports changing from run to run.                         *)
(***************************************************************************)

\* a spec with the config import enabled, under each override
Overridden(base, cfg, di) ==
    [base EXCEPT !.id = <<base.kind, cfg, di>>,
                 !.Config = ConfigSpec(TRUE, cfg),
                 !.Imports = [DI |-> di, Config |-> <<>>]]

RegenSpecs ==
    { Overridden(base, cfg, di) :
        base \in {ServiceSpec, GraphSpec},
        cfg \in {<<>>, <<"example.com/override/config">>, <<"example.com/set/config">>},
        di \in {<<>>, <<"example.com/fork/di">>} }

RegenInit ==
    /\ env = Env(<<>>, TRUE, TRUE, TRUE)
    /\ outFile \in {NoSrcFile, KeepFile}
    /\ parserChecksImportPath \in BOOLEAN
    /\ gpc = "idle"
    /\ grun = NoRun
    /\ ghist = <<>>

RegenNext ==
    \/ \E raw \in RegenSpecs : StartRun(raw)
    \/ \E ok \in BOOLEAN : OpenTrunc(ok)
    \/ \E cut \in {"empty", "head", "body", "full"} : WriteAll(cut)

\* no two imports of the text share an alias and differ in path
NoAliasClash(text) ==
    \A a, b \in Range(ImportsOf(text)) :
        (a.Name = b.Name /\ a.Name # <<>>) => a.Path = b.Path

\* C27: whatever the overrides of the runs before it were, the import list
\* a run renders holds no two imports with one alias and two paths.
C27_OneAliasOnePath == gpc # "idle" => NoAliasClash(grun.src)

(***************************************************************************)
(* Part 5.  A composition function rendered by graphTpl, run one statement *)
(* at a time.  Whether a builder's Build/BuildWith fails is drawn at the   *)
(* start (comp.fails).                                                     *)
(***************************************************************************)

Stmt(op, var, to, call, from) ==
    [op |-> op, var |-> var, to |-> to, call |-> call, from |-> from]

\* the statements of the function for rendered root r, in the template's
\* order: the constructors, the wiring calls, then per service the build,
\* the error check and the assignment to the result field
ComposeStmts_BuildBeforeWire(r) ==
    [i \in 1..Len(r.construct) |-> Stmt("new", r.construct[i].Var, <<>>, <<>>, <<>>)]
    \o [i \in 1..Len(r.build) |-> Stmt("build", r.build[i].var, <<>>, <<r.build[i].call>>, <<>>)]
    \o [i \in 1..Len(r.wire) |-> Stmt("wire", <<>>, r.wire[i].To, r.wire[i].Call, r.wire[i].ArgFrom)]

ComposeStmts(r) ==
    [i \in 1..Len(r.construct) |-> Stmt("new", r.construct[i].Var, <<>>, <<>>, <<>>)]
    \o [i \in 1..Len(r.wire) |-> Stmt("wire", <<>>, r.wire[i].To, r.wire[i].Call, r.wire[i].ArgFrom)]
    \o [i \in 1..Len(r.build) |-> Stmt("build", r.build[i].var, <<>>, <<r.build[i].call>>, <<>>)]

GraphServices ==
    << [Var |-> <<"voucher">>, FacadeCtor |-> "NewVoucherV2"],
       [Var |-> <<"order">>, FacadeCtor |-> "NewOrderV2"],
       [Var |-> <<"ledger">>, FacadeCtor |-> "NewLedgerV2"] >>

GraphWiring ==
    << [To |-> <<"voucher">>, Call |-> <<"InjectOrder">>, ArgFrom |-> <<"order">>],
       [To |-> <<"order">>, Call |-> <<"InjectVoucher">>, ArgFrom |-> <<"voucher">>] >>

\* graph specs that list the same root in every order
ComposeGraphs ==
    { [GraphSpec EXCEPT !.Roots =
          << [Name |-> <<"Wire">>, BuildWithRegistry |-> b, Services |-> s, Wiring |-> w] >>] :
        b \in BOOLEAN, s \in Reorderings(GraphServices), w \in Reorderings(GraphWiring) }

\* the root as genGraph hands it to the template and the template renders it
RenderedRoot(g) == graphTplExec(graphSorted(g), sha256Hex(g), <<>>).body.roots[1]

NoBuildError == [root |-> <<>>, var |-> <<>>, wraps |-> <<>>]

\* the error of <var>B.Build() / BuildWith(reg)
BuildError(var) == <<"wiring incomplete">> \o var

CompStart(g, fails) ==
    [root |-> g.Roots[1], name |-> RenderedRoot(g).name, stmts |-> ComposeStmts(RenderedRoot(g)),
     fails |-> fails, pc |-> 1, made |-> {}, wired |-> <<>>, tried |-> <<>>, res |-> {},
     done |-> FALSE, err |-> NoBuildError]

CompInit == comp \in {CompStart(g, fails) : g \in ComposeGraphs,
                                              fails \in SUBSET Range([i \in 1..3 |-> GraphServices[i].Var])}

CompIdle == comp = CompStart(GraphSpec, {})

CompAt(op) == ~comp.done /\ comp.pc <= Len(comp.stmts) /\ comp.stmts[comp.pc].op = op

\* <var>B := <FacadeCtor>(...)
CompNew ==
    /\ CompAt("new")
    /\ CompFrame
    /\ comp' = [comp EXCEPT !.made = @ \cup {comp.stmts[comp.pc].var}, !.pc = @ + 1]

\* <to>B.<Call>(<argFrom>B.UnsafeImpl())
CompWire ==
    /\ CompAt("wire")
    /\ CompFrame
    /\ comp' = [comp EXCEPT !.wired = Append(@, comp.stmts[comp.pc]), !.pc = @ + 1]

\* <var>Svc, err := <var>B.Build(); if err != nil { return res, fmt.Errorf(...) };
\* res.<Var> = <var>Svc
BuildOutcome_AssignsFirst(c, var) ==
    IF var \in c.fails
    THEN [c EXCEPT !.tried = Append(@, var), !.res = @ \cup {var}, !.done = TRUE,
                   !.err = [root |-> c.name, var |-> var, wraps |-> BuildError(var)]]
    ELSE [c EXCEPT !.tried = Append(@, var), !.res = @ \cup {var}, !.pc = @ + 1]

BuildOutcome(c, var) ==
    IF var \in c.fails
    THEN [c EXCEPT !.tried = Append(@, var), !.done = TRUE,
                   !.err = [root |-> c.name, var |-> var, wraps |-> BuildError(var)]]
    ELSE [c EXCEPT !.tried = Append(@, var), !.res = @ \cup {var}, !.pc = @ + 1]

CompBuild ==
    /\ CompAt("build")
    /\ CompFrame
    /\ comp' = BuildOutcome(comp, comp.stmts[comp.pc].var)

\* return res, nil
CompReturn ==
    /\ ~comp.done /\ comp.pc = Len(comp.stmts) + 1
    /\ CompFrame
    /\ comp' = [comp EXCEPT !.done = TRUE]

CompNext == CompNew \/ CompWire \/ CompBuild \/ CompReturn

(***************************************************************************)
(* Claims about the composition function.                                  *)
(***************************************************************************)

RootVars == {comp.root.Services[i].Var : i \in 1..Len(comp.root.Services)}

\* C11: no wire step runs before every service builder of the root is
\* constructed, and no Build/BuildWith runs before every declared wire step
\* has run.
C11_ConstructWireBuild ==
    /\ Len(comp.wired) > 0 => comp.made = RootVars
    /\ Len(comp.tried) > 0 =>
          /\ comp.made = RootVars
          /\ \A i \in 1..Len(comp.root.Wiring) :
                \E k \in 1..Len(comp.wired) :
                    /\ comp.wired[k].to = comp.root.Wiring[i].To
                    /\ comp.wired[k].call = comp.root.Wiring[i].Call
                    /\ comp.wired[k].from = comp.root.Wiring[i].ArgFrom

\* a build has run for a root whose spec lists the services and the wiring
\* out of name order
C11_Witness ==
    /\ Len(comp.tried) > 0
    /\ Len(comp.wired) = 2
    /\ comp.root.Services[1].Var = <<"voucher">>
    /\ comp.root.Wiring[1].To = <<"voucher">>

\* C12: services are built one at a time; at the first failing build the
\* function returns an error that wraps the build error and names the
\* service, builds no later service, and leaves the result fields of the
\* failing and the later services unset.
C12_FirstFailureReturns ==
    /\ \A i, j \in 1..Len(comp.tried) : comp.tried[i] = comp.tried[j] => i = j
    /\ \A i \in 1..Len(comp.tried) :
          comp.tried[i] \in comp.fails =>
             /\ i = Len(comp.tried)
             /\ comp.done
             /\ comp.err = [root |-> comp.root.Name, var |-> comp.tried[i],
                            wraps |-> BuildError(comp.tried[i])]
    /\ comp.res = {comp.tried[i] : i \in 1..Len(comp.tried)} \ comp.fails
    /\ (comp.done /\ comp.err = NoBuildError) => comp.res = RootVars

\* the second build failed: one result field is set, the third service was
\* never built
C12_Witness ==
    /\ comp.done /\ comp.err # NoBuildError
    /\ Len(comp.tried) = 2
    /\ Cardinality(comp.res) = 1
    /\ Cardinality(comp.fails) = 2

(***************************************************************************)
(* Part 6.  cmd/di1: resolveImports, and the facade rendered by            *)
(* genTemplate.                                                            *)
(***************************************************************************)

\* ImportSpec{Alias, Path} of cmd/di1
Di1Import(alias, path) == [Alias |-> alias, Path |-> path]

\* path.Base of the import paths that occur here
PathBase(p) ==
    CASE p = <<>> -> <<".">>
      [] p[Len(p)] \in {"example.com/app/config", "example.com/fork/config", "config"} -> <<"config">>
      [] p[Len(p)] = "example.com/zz/settings" -> <<"settings">>
      [] OTHER -> <<p[Len(p)]>>

\* ensureImport: nothing is added when the path is already imported, under
\* whatever alias
ensureImport(imports, required) ==
    IF \E i \in 1..Len(imports) : imports[i].Path = required.Path
    THEN imports
    ELSE Append(imports, required)

containsAlias(imports, alias) ==
    \E i \in 1..Len(imports) : imports[i].Alias = alias /\ alias # <<>>

importDefaultIdent(importPath) == PathBase(TrimSpace(importPath))

hasUsableConfigIdent(imports) ==
    \/ containsAlias(imports, <<"config">>)
    \/ \E i \in 1..Len(imports) :
          imports[i].Alias = <<>> /\ importDefaultIdent(imports[i].Path) = <<"config">>

\* resolveImports(ownerFilePath, spec, constructorNeedsConfig); r.owner is
\* what the owner file imports, r.parses whether readImportsFromFile could
\* read them (a blank owner path counts as not)
resolveImports(r) ==
    LET importsFromOwner == IF r.parses THEN r.owner ELSE <<>>
        withFmt == ensureImport(importsFromOwner, Di1Import(<<>>, <<"fmt">>))
    IN CASE ~r.needsConfig -> [imports |-> withFmt, err |-> FALSE]
         [] hasUsableConfigIdent(withFmt) -> [imports |-> withFmt, err |-> FALSE]
         [] TrimSpace(r.config) = <<>> -> [imports |-> <<>>, err |-> TRUE]
         [] OTHER -> [imports |-> ensureImport(withFmt, Di1Import(<<"config">>, r.config)),
                      err |-> FALSE]

MaxOwnerImports == 2

OwnerImports ==
    { Di1Import(<<>>, <<"fmt">>),
      Di1Import(<<"config">>, <<"example.com/fork/config">>),
      Di1Import(<<>>, <<"example.com/app/config">>),
      Di1Import(<<"cfg">>, <<"example.com/app/config">>),
      Di1Import(<<>>, <<"example.com/zz/settings">>) }

SpecConfigImports ==
    { <<>>, <<SP>>, <<"example.com/app/config">>, <<"example.com/zz/settings">> }

ResolveCall(owner, parses, config, needsConfig) ==
    [owner |-> owner, parses |-> parses, config |-> config, needsConfig |-> needsConfig,
     pc |-> "call", imports |-> <<>>, err |-> FALSE]

Di1ResolveInit ==
    resolve \in { ResolveCall(owner, parses, config, needsConfig) :
                    owner \in SeqsUpTo(OwnerImports, MaxOwnerImports),
                    parses \in BOOLEAN,
                    config \in SpecConfigImports,
                    needsConfig \in BOOLEAN }

ResolveIdle == resolve = ResolveCall(<<>>, FALSE, <<>>, FALSE)

ResolveImports ==
    /\ resolve.pc = "call"
    /\ Di1Frame
    /\ resolve' = [resolve EXCEPT !.pc = "done",
                                  !.imports = resolveImports(resolve).imports,
                                  !.err = resolveImports(resolve).err]
    /\ UNCHANGED facade

Di1ResolveNext == ResolveImports

\* the generated code can write config.Config under these imports
UsableAsConfig(imports) ==
    \E i \in 1..Len(imports) :
        \/ imports[i].Alias = <<"config">>
        \/ imports[i].Alias = <<>> /\ PathBase(TrimSpace(imports[i].Path)) = <<"config">>

\* C25: a call of resolveImports with constructorNeedsConfig that returns no
\* error returns a list with an import usable under the identifier config.
C25_ConfigIdentUsable ==
    (resolve.pc = "done" /\ resolve.needsConfig /\ ~resolve.err) =>
        UsableAsConfig(resolve.imports)

\* ---- the facade of genTemplate ----

Facades == {"f", "g"}
FacadeValues == {Nil, "v1"}

\* spec.Required in the order of the spec file; di1 does not sort it
RequiredOrders == {<<"A", "B">>, <<"B", "A">>}

NoFacadeCall == [op |-> "new", who |-> "f", dep |-> "", err |-> FALSE, missing |-> "", ret |-> ""]

\* New<Facade>() for each facade: the constructor's implementation, no flag
\* set.  called is the record of the Inject<Name> calls made, kept beside
\* the generated code's own has<Name> flags.
NewFacades(order) ==
    [order |-> order,
     fld |-> [x \in Facades |-> [d \in Required |-> Nil]],
     has |-> [x \in Facades |-> [d \in Required |-> FALSE]],
     called |-> [x \in Facades |-> {}],
     last |-> NoFacadeCall]

FacadeInit == facade \in {NewFacades(order) : order \in RequiredOrders}

FacadeIdle == facade = NewFacades(RequiredSeq)

\* Inject<Name>(dep)
FacadeInjectNamed(x, d, v) ==
    /\ Di1Frame
    /\ facade' = [facade EXCEPT !.fld[x][d] = v,
                                !.has[x][d] = TRUE,
                                !.called[x] = @ \cup {d},
                                !.last = [NoFacadeCall EXCEPT !.op = "Inject", !.who = x, !.dep = d]]
    /\ UNCHANGED resolve

\* Inject(fn): fn is nil, or stores v in field d of the implementation
FacadeInjectFn(x, fn) ==
    /\ Di1Frame
    /\ facade' = [facade EXCEPT !.fld[x] = IF fn = NilFn THEN @ ELSE [@ EXCEPT ![fn.d] = fn.v],
                                !.last = [NoFacadeCall EXCEPT !.op = "InjectFn", !.who = x]]
    /\ UNCHANGED resolve

\* the dependencies Build() finds wanting, in the order of its tests
FacadeMissing_NilFields(x) == SelectSeq(facade.order, LAMBDA d : facade.fld[x][d] = Nil)

FacadeMissing(x) == SelectSeq(facade.order, LAMBDA d : ~facade.has[x][d])

\* Build(): the first `if !b.has<Name>` that fires returns the error
FacadeBuild(x) ==
    /\ Di1Frame
    /\ facade' = [facade EXCEPT !.last =
                    IF Len(FacadeMissing(x)) > 0
                    THEN [NoFacadeCall EXCEPT !.op = "Build", !.who = x, !.err = TRUE,
                                              !.missing = FacadeMissing(x)[1], !.ret = "nil"]
                    ELSE [NoFacadeCall EXCEPT !.op = "Build", !.who = x, !.ret = "svc"]]
    /\ UNCHANGED resolve

FacadeNext ==
    \/ \E x \in Facades, d \in Required, v \in FacadeValues : FacadeInjectNamed(x, d, v)
    \/ \E x \in Facades, fn \in {NilFn} \cup [d : Required, v : FacadeValues] : FacadeInjectFn(x, fn)
    \/ \E x \in Facades : FacadeBuild(x)

\* the required dependencies whose Inject<Name> was never called on x, in
\* the order of the spec
NeverInjected(x) == SelectSeq(facade.order, LAMBDA d : d \notin facade.called[x])

\* C26: Build() on a di1 facade returns an error exactly when the
\* Inject<Name> of some required dependency was never called on it; the
\* error names the first such dependency in the order of the spec, and
\* without an error Build() returns the implementation.
C26_BuildFailsIffNeverInjected ==
    facade.last.op = "Build" =>
        /\ facade.last.err <=> Len(NeverInjected(facade.last.who)) > 0
        /\ facade.last.err => facade.last.missing = NeverInjected(facade.last.who)[1]
        /\ ~facade.last.err => facade.last.ret = "svc"

\* Build() failed on a facade whose fields were all set through Inject(fn),
\* naming B, the first in a spec that lists B before A, while the other
\* facade has had both Inject<Name> calls
C26_Witness ==
    /\ facade.last.op = "Build" /\ facade.last.err /\ facade.last.who = "f"
    /\ facade.order = <<"B", "A">> /\ facade.last.missing = "B"
    /\ \A d \in Required : facade.fld["f"][d] # Nil
    /\ facade.called["f"] = {"A"}
    /\ facade.called["g"] = Required

\* Build() succeeded on a facade one dependency of which was injected as nil
C26_WitnessNil ==
    /\ facade.last.op = "Build" /\ ~facade.last.err
    /\ \E d \in Required : facade.fld[facade.last.who][d] = Nil

Di1Idle == ResolveIdle /\ FacadeIdle

BuilderIdle ==
    /\ specPolicy = ""
    /\ policy = InjectPolicyOnOverwrite(specPolicy)
    /\ svc = [x \in Builders |-> IF x = "b" THEN 1 ELSE NoImpl]
    /\ injected = [x \in Builders |-> {}]
    /\ optionalResolved = [x \in Builders |-> EmptyNotes]
    /\ optionalMissing = [x \in Builders |-> EmptyNotes]
    /\ heap = [i \in ImplIds |-> NewImpl]
    /\ last = NoLast

AtomicIdle ==
    /\ files = [q \in Paths |-> Absent]
    /\ wpc = [w \in Writers |-> "idle"]
    /\ wcall = [w \in Writers |-> IdleCall]
    /\ removes = [w \in Writers |-> 0]

BuilderSpecInit == BuilderInit /\ AtomicIdle /\ MergeIdle /\ GenIdle /\ CompIdle /\ Di1Idle
BuilderSpecNext == BuilderNext
BuilderSpec == BuilderSpecInit /\ [][BuilderSpecNext]_vars

BuildWithSpecInit == BuilderInit /\ AtomicIdle /\ MergeIdle /\ GenIdle /\ CompIdle /\ Di1Idle
BuildWithSpecNext == BuildWithNext
BuildWithSpec == BuildWithSpecInit /\ [][BuildWithSpecNext]_vars

WrapperSpecInit == BuilderInit /\ AtomicIdle /\ MergeIdle /\ GenIdle /\ CompIdle /\ Di1Idle
WrapperSpecNext == WrapperNext
WrapperSpec == WrapperSpecInit /\ [][WrapperSpecNext]_vars

AtomicSpecInit == AtomicInit /\ BuilderIdle /\ MergeIdle /\ GenIdle /\ CompIdle /\ Di1Idle
AtomicSpecNext == AtomicNext
AtomicSpec == AtomicSpecInit /\ [][AtomicSpecNext]_vars

ConcurrentSpecInit == ConcurrentInit /\ BuilderIdle /\ MergeIdle /\ GenIdle /\ CompIdle /\ Di1Idle
ConcurrentSpecNext == ConcurrentNext
ConcurrentSpec == ConcurrentSpecInit /\ [][ConcurrentSpecNext]_vars

MergeSpecInit == MergeInit /\ BuilderIdle /\ AtomicIdle /\ GenIdle /\ CompIdle /\ Di1Idle
MergeSpecNext == MergeNext
MergeSpec == MergeSpecInit /\ [][MergeSpecNext]_vars

GenSpecInit == GenInit /\ BuilderIdle /\ AtomicIdle /\ MergeIdle /\ CompIdle /\ Di1Idle
GenSpecNext == GenNext
GenSpec == GenSpecInit /\ [][GenSpecNext]_vars

ResolveSpecInit == ResolveInit /\ BuilderIdle /\ AtomicIdle /\ MergeIdle /\ CompIdle /\ Di1Idle
ResolveSpecNext == ResolveNext
ResolveSpec == ResolveSpecInit /\ [][ResolveSpecNext]_vars

AbortSpecInit == AbortInit /\ BuilderIdle /\ AtomicIdle /\ MergeIdle /\ CompIdle /\ Di1Idle
AbortSpecNext == AbortNext
AbortSpec == AbortSpecInit /\ [][AbortSpecNext]_vars

ValidateSpecInit == ValidateInit /\ BuilderIdle /\ AtomicIdle /\ MergeIdle /\ CompIdle /\ Di1Idle
ValidateSpecNext == ValidateNext
ValidateSpec == ValidateSpecInit /\ [][ValidateSpecNext]_vars

ScanSpecInit == ScanInit /\ BuilderIdle /\ AtomicIdle /\ MergeIdle /\ CompIdle /\ Di1Idle
ScanSpecNext == ScanNext
ScanSpec == ScanSpecInit /\ [][ScanSpecNext]_vars

OrderSpecInit == OrderInit /\ BuilderIdle /\ AtomicIdle /\ MergeIdle /\ CompIdle /\ Di1Idle
OrderSpecNext == OrderNext
OrderSpec == OrderSpecInit /\ [][OrderSpecNext]_vars

PreserveSpecInit == PreserveInit /\ BuilderIdle /\ AtomicIdle /\ MergeIdle /\ CompIdle /\ Di1Idle
PreserveSpecNext == PreserveNext
PreserveSpec == PreserveSpecInit /\ [][PreserveSpecNext]_vars

RegenSpecInit == RegenInit /\ BuilderIdle /\ AtomicIdle /\ MergeIdle /\ CompIdle /\ Di1Idle
RegenSpecNext == RegenNext
RegenSpec == RegenSpecInit /\ [][RegenSpecNext]_vars

Di1ResolveSpecInit == Di1ResolveInit /\ FacadeIdle /\ BuilderIdle /\ AtomicIdle /\ MergeIdle /\ GenIdle /\ CompIdle
Di1ResolveSpecNext == Di1ResolveNext
Di1ResolveSpec == Di1ResolveSpecInit /\ [][Di1ResolveSpecNext]_vars

FacadeSpecInit == FacadeInit /\ ResolveIdle /\ BuilderIdle /\ AtomicIdle /\ MergeIdle /\ GenIdle /\ CompIdle
FacadeSpecNext == FacadeNext
FacadeSpec == FacadeSpecInit /\ [][FacadeSpecNext]_vars

ComposeSpecInit == CompInit /\ BuilderIdle /\ AtomicIdle /\ MergeIdle /\ GenIdle /\ Di1Idle
ComposeSpecNext == CompNext
ComposeSpec == ComposeSpecInit /\ [][ComposeSpecNext]_vars

====
